---- MODULE Spec2Model ----
(***************************************************************************)
(* A model of the react_viewer client: the socket connection life cycle    *)
(* and the message handler of App.tsx (connectWebSocket, handleMessage,    *)
(* the effect cleanup, handleManualReconnect), the merge of "replace" and  *)
(* "append" updates into sharedData, the projection of the mesh cells in   *)
(* Scene.tsx, the residual plot (TimeSeriesPlot), and the message handler  *)
(* of WebSocketClient.tsx.                                                 *)
(*                                                                         *)
(* The specifications share the variables:                                 *)
(*   Spec       the connection manager with its sockets and timers, and    *)
(*              the frames it receives;                                    *)
(*   StoreSpec  the message handler alone, on an established connection,   *)
(*              with a richer set of frames;                               *)
(*   HistorySpec  the message histories of App and of WebSocketClient     *)
(*              over runs long enough to fill them; HistoryLiveSpec adds   *)
(*              the fairness of the timer callbacks;                       *)
(*   SceneSpec  the scene projection over bounded props;                   *)
(*   GeometrySpec  the geometry lines of the scene over bounded props;     *)
(*   CellSpec   one MeshCell over values and ranges in double precision;   *)
(*   PlotSpec   the residual plot of App: its tab, window and series;      *)
(*   HeapSpec   the message handler over the objects it allocates and      *)
(*              writes, with a reader at every statement.                  *)
(***************************************************************************)
EXTENDS Integers, Sequences, FiniteSets, TLC

VARIABLES
  sockets,          \* every WebSocket the manager created, in creation order
  ws,               \* ws.current: index into sockets, 0 for null
  timers,           \* every reconnect timer: "pending", "fired" or "cleared"
  reconnectTimeout, \* reconnectTimeout.current: index into timers, 0 for undefined
  wsState,          \* [isConnected, lastMessage, messageHistory]
  sharedData,       \* [value, lastUpdate, status]
  quiesceTimers,    \* number of pending setTimeout(status idle, 1000) callbacks
  tornDown,         \* the effect cleanup has run
  uncaughtError,    \* a state updater threw while React rendered
  log,              \* history: the frames handed to handleMessage, in order
  closeCount,       \* history: number of onclose handler runs
  errorCount,       \* history: number of onerror handler runs
  connectRuns,      \* history: number of connectWebSocket runs started by a timer
  manualCount,      \* history: number of manual reconnect requests
  updateCount,      \* history: number of Field Store updates the updater made
  selectedValue,    \* App state selectedValue ("" for none)
  sceneVisibility,  \* App state sceneVisibility: name -> BOOLEAN
  sceneData,        \* the props mesh / valueOnMesh / geometry of Scene
  rendered,         \* the projection Scene produced at the last render
  clientHistory,    \* WebSocketClient state messageHistory
  clientLastMessage,\* WebSocketClient state lastMessage (<<>> for null)
  clientDelivered,  \* history: the arguments of WebSocketClient's onMessage calls
  clientMounted,    \* a WebSocketClient is mounted, its socket open
  renderedLines,    \* the geometry lines Scene emitted at the last render
  cellProps,        \* the props colorValue / valueRange of one MeshCell
  cellColor,        \* the colour that MeshCell computed for its props
  activeTab,        \* App state activeTab
  startIndex,       \* App state startIndex (the shared slider)
  visibleSeries,    \* TimeSeriesPlot state visibleSeries of the residual plot
  userHidden,       \* history: the series the user has switched off in its legend
  heap,             \* the objects the updater allocates, by address
  stateRef,         \* address of the object React holds as sharedData.value
  snapshots,        \* history: references a reader took, with what they showed
  updater           \* the call of the updater that is under way

connVars  == <<sockets, ws, timers, reconnectTimeout, tornDown>>
histVars  == <<log, closeCount, errorCount, connectRuns, manualCount, updateCount>>
storeVars == <<wsState, sharedData, quiesceTimers, uncaughtError>>
sceneVars == <<selectedValue, sceneVisibility, sceneData, rendered, renderedLines>>
clientVars == <<clientHistory, clientLastMessage, clientDelivered, clientMounted>>
cellVars == <<cellProps, cellColor>>
plotVars == <<activeTab, startIndex, visibleSeries, userHidden>>
heapVars == <<heap, stateRef, snapshots, updater>>
vars == <<connVars, histVars, storeVars, sceneVars, clientVars, cellVars, plotVars,
          heapVars>>

(***************************************************************************)
(* Bounds of the model.                                                    *)
(***************************************************************************)
MaxSockets == 3   \* sockets one manager creates in a run
MaxConnMsgs == 1  \* frames received in a run of Spec
MaxMsgs == 3      \* frames received in a run of StoreSpec
MaxPoints == 2    \* cells of one mesh, and values of one mesh, in SceneSpec
MaxHistMsgs == 6  \* frames App receives in a run of HistorySpec
MaxClientMsgs == 21 \* frames WebSocketClient receives in a run of HistorySpec
MaxClientTexts == 2 \* undecodable frames among them
MaxLines == 2     \* lines of one geometry entry in GeometrySpec
MaxTenths == 3    \* CellSpec draws the decimal fractions 0.1 .. MaxTenths / 10
MaxPlotMsgs == 3  \* frames received in a run of PlotSpec
MaxHeapMsgs == 3  \* frames received in a run of HeapSpec
MaxSnapshots == 2 \* references a reader takes in a run of HeapSpec

(***************************************************************************)
(* JSON values.  A value is a record [t, v]: a string is the sequence of   *)
(* its characters, an array a sequence of numbers, an object a function    *)
(* from its keys to values.                                                *)
(***************************************************************************)
Str(s) == [t |-> "str", v |-> s]
Num(n) == [t |-> "num", v |-> n]
Arr(a) == [t |-> "arr", v |-> a]
Obj(o) == [t |-> "obj", v |-> o]
Null == [t |-> "null", v |-> <<>>]
Undefined == [t |-> "undefined", v |-> <<>>]
EmptyObject == <<>>

\* obj[key] of JavaScript on the function o of an object.
Get(o, k) == IF k \in DOMAIN o THEN o[k] ELSE Undefined

\* JavaScript truthiness.
Truthy(x) ==
  CASE x.t = "undefined" -> FALSE
    [] x.t = "null" -> FALSE
    [] x.t = "num" -> x.v # 0
    [] x.t = "str" -> x.v # <<>>
    [] OTHER -> TRUE

\* The own enumerable properties {...x} copies: an object's entries, a
\* string's characters and an array's elements under their indices, nothing
\* for a number, null or undefined.
Spread(x) ==
  CASE x.t = "obj" -> x.v
    [] x.t = "str" ->
         [k \in {ToString(i - 1) : i \in 1..Len(x.v)} |->
            Str(<<x.v[CHOOSE i \in 1..Len(x.v) : ToString(i - 1) = k]>>)]
    [] x.t = "arr" ->
         [k \in {ToString(i - 1) : i \in 1..Len(x.v)} |->
            Num(x.v[CHOOSE i \in 1..Len(x.v) : ToString(i - 1) = k])]
    [] OTHER -> EmptyObject

\* {...a, ...b} on the property functions a and b.
Assign(a, b) ==
  [k \in (DOMAIN a) \cup (DOMAIN b) |-> IF k \in DOMAIN b THEN b[k] ELSE a[k]]

\* Mutant: the new object has the updated field alone.
WithAlone(o, k, x) == [j \in {k} |-> x]
\* { ...o, [k]: x }
With(o, k, x) == Assign(o, [j \in {k} |-> x])

\* Object.keys(x) throws a TypeError on null and undefined.
KeysThrows(x) == x.t \in {"null", "undefined"}
Keys(x) == DOMAIN Spread(x)

\* Array.prototype.join(",") of an array of numbers, as characters.
RECURSIVE JoinChars(_)
JoinChars(a) ==
  IF a = <<>> THEN <<>>
  ELSE IF Len(a) = 1 THEN <<ToString(a[1])>>
  ELSE <<ToString(a[1]), ",">> \o JoinChars(Tail(a))

\* x.concat(p) for an array payload p: only arrays and strings have concat.
ConcatThrows(x) == x.t \notin {"arr", "str"}
\* Mutant: the payload is put in front of the existing elements.
ConcatPrepend(x, p) ==
  IF x.t = "arr" THEN Arr(p \o x.v) ELSE Str(JoinChars(p) \o x.v)
Concat(x, p) ==
  IF x.t = "arr" THEN Arr(x.v \o p) ELSE Str(x.v \o JoinChars(p))

(***************************************************************************)
(* Frames.  A text frame is either the serialization of a message          *)
(* {type, field, value, timestamp} or plain text (a sequence of            *)
(* characters) that JSON.parse rejects.                                    *)
(***************************************************************************)
JsonFrame(d) == [kind |-> "json", payload |-> d]
TextFrame(s) == [kind |-> "text", payload |-> s]
Message(type, field, value, timestamp) ==
  [type |-> type, field |-> field, value |-> value, timestamp |-> timestamp]

JSONParseThrows(frame) == frame.kind # "json"
JSONParse(frame) == frame.payload

NotJson == <<"n", "o", "t", " ", "j", "s", "o", "n">>

\* The values a sender puts on the two fields of a run: a time series of
\* named arrays on res, a scalar on age, and on each a value of the other shape.
ResValues ==
  { Obj([max |-> Arr(<<1, 2>>)]), Obj([max |-> Arr(<<3>>)]),
    Obj([rms |-> Arr(<<3>>)]), Obj([max |-> Num(5)]) }
AgeValues ==
  { Str(<<"2", "1">>), Str(<<"2", "2">>), Obj([max |-> Arr(<<3>>)]) }
Types == {"replace", "append"}
Fields == {"res", "age"}

\* data.field of a message that has no field key: undefined, which as a
\* property key (prev.value[data.field]) is the string "undefined".
NoField == "undefined"

\* The frames a run of StoreSpec draws from; the sender stamps them in order.
Frames(n) ==
  {JsonFrame(Message(ty, "res", v, 1000 + n)) : ty \in Types, v \in ResValues}
    \cup {JsonFrame(Message(ty, "age", v, 1000 + n)) : ty \in Types, v \in AgeValues}
    \cup {JsonFrame(Message("replace", NoField, Obj([max |-> Arr(<<3>>)]), 1000 + n))}
    \cup {TextFrame(NotJson)}

\* The frames a run of Spec draws from.
ConnFrames(n) ==
  { JsonFrame(Message("replace", "age", Str(<<"2", "1">>), 1000 + n)),
    JsonFrame(Message("append", "res", Obj([max |-> Arr(<<1, 2>>)]), 1000 + n)),
    TextFrame(NotJson) }

\* The frames App receives in a run of HistorySpec: an update of res, an
\* update of the field value_on_mesh, plain text.
LongField == "value_on_mesh"
HistFrames(n) ==
  { JsonFrame(Message("replace", "res", Obj([max |-> Arr(<<3>>)]), 1000 + n)),
    JsonFrame(Message("replace", LongField, Obj([max |-> Arr(<<3>>)]), 1000 + n)),
    TextFrame(NotJson) }

\* The frames WebSocketClient receives in a run of HistorySpec: an update,
\* a short plain text and a plain text of sixty characters.
LongText == [i \in 1..60 |-> "x"]
ClientFrames(n) ==
  { JsonFrame(Message("replace", "res", Obj([max |-> Arr(<<3>>)]), 1000 + n)),
    TextFrame(NotJson),
    TextFrame(LongText) }

\* The frames of a run of PlotSpec: residual series that grow, one that is
\* first named by a later append, a replace by a shorter series, and a
\* longer force series.
PlotFrames(n) ==
  { JsonFrame(Message("append", "res", Obj([max |-> Arr(<<1, 2>>)]), 1000 + n)),
    JsonFrame(Message("append", "res", Obj([rms |-> Arr(<<2>>)]), 1000 + n)),
    JsonFrame(Message("replace", "res", Obj([max |-> Arr(<<3>>)]), 1000 + n)),
    JsonFrame(Message("append", "force", Obj([fx |-> Arr(<<5, 6, 7>>)]), 1000 + n)) }

\* The frames of a run of HeapSpec: updates of res that name two sub-keys.
HeapFrames(n) ==
  { JsonFrame(Message("replace", "res",
                      Obj([max |-> Arr(<<1>>), rms |-> Arr(<<2>>)]), 1000 + n)),
    JsonFrame(Message("append", "res",
                      Obj([max |-> Arr(<<3>>), rms |-> Arr(<<4>>)]), 1000 + n)),
    JsonFrame(Message("append", "res",
                      Obj([max |-> Arr(<<5>>), avg |-> Arr(<<6>>)]), 1000 + n)) }

(***************************************************************************)
(* JSON.stringify: the number of characters of its result.                 *)
(***************************************************************************)
\* The elements of an array of numbers, joined by ",".
RECURSIVE ElementsLength(_)
ElementsLength(a) ==
  IF a = <<>> THEN 0
  ELSE IF Len(a) = 1 THEN Len(ToString(a[1]))
  ELSE Len(ToString(a[1])) + 1 + ElementsLength(Tail(a))

\* "key":value for each key of o, joined by ","; an undefined value is left out.
RECURSIVE MembersLength(_, _)
StringifyLength(x) ==
  CASE x.t = "str" -> Len(x.v) + 2
    [] x.t = "num" -> Len(ToString(x.v))
    [] x.t = "arr" -> 2 + ElementsLength(x.v)
    [] x.t = "obj" -> 2 + MembersLength(x.v, DOMAIN x.v)
    [] OTHER -> 4
MembersLength(o, keys) ==
  IF keys = {} THEN 0
  ELSE LET k == CHOOSE j \in keys : TRUE
           rest == MembersLength(o, keys \ {k})
           this == IF o[k].t = "undefined" THEN 0
                   ELSE Len(k) + 3 + StringifyLength(o[k])
       IN IF this = 0 \/ rest = 0 THEN this + rest ELSE this + 1 + rest

\* A string-valued member of a message: undefined when the key is missing.
StringMember(s) == IF s = NoField THEN Undefined ELSE Str(s)

\* JSON.stringify({field, type, timestamp}) (App.tsx 15-20).
SummaryLength(simplified) ==
  StringifyLength(Obj([field |-> StringMember(simplified.field),
                       type |-> Str(simplified.type),
                       timestamp |-> Num(simplified.timestamp)]))

\* JSON.stringify(data) of a decoded message (WebSocketClient.tsx 25).
MessageLength(data) ==
  StringifyLength(Obj([type |-> Str(data.type),
                       field |-> StringMember(data.field),
                       value |-> data.value,
                       timestamp |-> Num(data.timestamp)]))

\* The number of characters of an entry of a message history.
EntryLength(entry) ==
  CASE entry.kind = "summary" -> SummaryLength(entry.payload)
    [] entry.kind = "json" -> MessageLength(entry.payload)
    [] OTHER -> Len(entry.payload)

(***************************************************************************)
(* Message history (App.tsx 10-35).                                        *)
(***************************************************************************)
MAX_MESSAGE_LENGTH == 50
DefaultMaxMessages == 5

Ellipsis == <<".", ".", ".">>

\* JSON.stringify({field, type, timestamp}) of a decoded frame, else the raw
\* text cut to MAX_MESSAGE_LENGTH characters.
truncateMessage(frame) ==
  IF ~JSONParseThrows(frame)
  THEN [kind |-> "summary",
        payload |-> [field |-> JSONParse(frame).field,
                     type |-> JSONParse(frame).type,
                     timestamp |-> JSONParse(frame).timestamp]]
  ELSE [kind |-> "text",
        payload |-> IF Len(frame.payload) > MAX_MESSAGE_LENGTH
                    THEN SubSeq(frame.payload, 1, MAX_MESSAGE_LENGTH) \o Ellipsis
                    ELSE frame.payload]

\* Mutant: slice(-n) keeps the first n entries.
SliceFirst(history, n) ==
  IF Len(history) <= n THEN history ELSE SubSeq(history, 1, n)
\* history.slice(-n) for n > 0: the last n entries.
SliceLast(history, n) ==
  IF Len(history) <= n THEN history
  ELSE SubSeq(history, Len(history) - n + 1, Len(history))

updateMessageHistory(history, frame, maxMessages) ==
  Append(SliceLast(history, maxMessages - 1), truncateMessage(frame))

(***************************************************************************)
(* The Field Store updater of handleMessage (App.tsx 133-166).             *)
(***************************************************************************)
IsArray(x) == x.t = "arr"

\* Mutant: every append message takes the append branch.
TakesAppendBranchAlways(value, data) == data.type = "append"
\* The branch taken: data.type === 'append' && prev.value[data.field]
TakesAppendBranch(value, data) ==
  data.type = "append" /\ Truthy(Get(value, data.field))

\* updatedValue after the forEach over Object.keys(data.value): each key whose
\* payload is an array gets (updatedValue[key] || []).concat(payload).
AppendedKeys(payload) == {k \in DOMAIN payload : IsArray(payload[k])}
ConcatTarget(updatedValue, k) ==
  IF Truthy(Get(updatedValue, k)) THEN updatedValue[k] ELSE Arr(<<>>)
\* Mutant: an append overwrites the named sub-keys as a replace does.
AppendMergeOverwrite(existing, incoming) ==
  Assign(Spread(existing), Spread(incoming))
AppendMerge(existing, incoming) ==
  LET updatedValue == Spread(existing)
      payload == Spread(incoming)
  IN [k \in (DOMAIN updatedValue) \cup AppendedKeys(payload) |->
        IF k \in AppendedKeys(payload)
        THEN Concat(ConcatTarget(updatedValue, k), payload[k].v)
        ELSE updatedValue[k]]

\* Mutant: a replace concatenates an incoming array onto an existing array.
ReplaceMergeConcat(existing, incoming) ==
  LET old == Spread(existing)
      new == Spread(incoming)
  IN [k \in (DOMAIN old) \cup (DOMAIN new) |->
        IF k \notin DOMAIN new THEN old[k]
        ELSE IF k \in DOMAIN old /\ IsArray(old[k]) /\ IsArray(new[k])
        THEN Arr(old[k].v \o new[k].v)
        ELSE new[k]]
\* Mutant: a replace overwrites the whole field by the incoming value.
ReplaceMergeOverwrite(existing, incoming) == Spread(incoming)
\* { ...prev.value[data.field], ...data.value }
ReplaceMerge(existing, incoming) == Assign(Spread(existing), Spread(incoming))

\* The updater throws (Object.keys of null, concat on a value without it).
UpdaterThrows(value, data) ==
  /\ TakesAppendBranch(value, data)
  /\ \/ KeysThrows(data.value)
     \/ \E k \in AppendedKeys(Spread(data.value)) :
          ConcatThrows(ConcatTarget(Spread(Get(value, data.field)), k))

\* prev.value after the updater.
UpdatedValue(value, data) ==
  With(value, data.field,
       Obj(IF TakesAppendBranch(value, data)
           THEN AppendMerge(Get(value, data.field), data.value)
           ELSE ReplaceMerge(Get(value, data.field), data.value)))

\* prev.value after handleMessage handled the messages ms in order.  An
\* updater that throws fails the render: the tree is unmounted and the later
\* messages are not handled.
RECURSIVE HandleAll(_, _)
HandleAll(value, ms) ==
  IF ms = <<>> THEN value
  ELSE IF UpdaterThrows(value, ms[1]) THEN value
  ELSE HandleAll(UpdatedValue(value, ms[1]), Tail(ms))

(***************************************************************************)
(* Sockets and reconnect timers.                                           *)
(***************************************************************************)
\* new WebSocket(url) followed by the four handler assignments (App.tsx 190-213).
NewSocket ==
  [readyState |-> "CONNECTING", onopen |-> TRUE, onmessage |-> TRUE,
   onclose |-> TRUE, onerror |-> TRUE]

\* socket.close(): starts the closing handshake unless already closing or closed.
CloseMethod(sock) ==
  IF sock.readyState \in {"CONNECTING", "OPEN"}
  THEN [sock EXCEPT !.readyState = "CLOSING"]
  ELSE sock

\* clearTimeout(id): cancels the timer if it is still pending.
clearTimeout(tm, id) ==
  IF id \in DOMAIN tm /\ tm[id] = "pending" THEN [tm EXCEPT ![id] = "cleared"] ELSE tm

\* setTimeout(connectWebSocket, 3000): a new pending timer, whose id is returned.
setTimeout(tm) == Append(tm, "pending")

\* Mutant: connectWebSocket without its early return.
AlreadyConnectedNever(socks, cur) == FALSE
\* if (ws.current?.readyState === WebSocket.OPEN) return;  (App.tsx 185-188)
AlreadyConnected(socks, cur) == cur # 0 /\ socks[cur].readyState = "OPEN"

\* connectWebSocket (App.tsx 183-219): the refs after the call.  The
\* constructor is given a constant, well-formed URL and does not throw.
connectWebSocket(socks, cur) ==
  IF AlreadyConnected(socks, cur)
  THEN [sockets |-> socks, ws |-> cur]
  ELSE [sockets |-> Append(socks, NewSocket), ws |-> Len(socks) + 1]

\* The cleanup of the connection effect (App.tsx 224-239) on the refs.
CleanupTimers(tm, id) == IF id # 0 THEN clearTimeout(tm, id) ELSE tm
DetachAndClose(sock) ==
  [readyState |-> IF sock.readyState = "OPEN" THEN "CLOSING" ELSE sock.readyState,
   onopen |-> FALSE, onmessage |-> FALSE, onclose |-> FALSE, onerror |-> FALSE]
CleanupSockets(socks, cur) ==
  IF cur # 0 THEN [socks EXCEPT ![cur] = DetachAndClose(socks[cur])] ELSE socks

(***************************************************************************)
(* Initial states.                                                         *)
(***************************************************************************)
InitStore ==
  /\ wsState = [isConnected |-> FALSE, lastMessage |-> <<>>, messageHistory |-> <<>>]
  /\ sharedData = [value |-> EmptyObject, lastUpdate |-> "null", status |-> "idle"]
  /\ quiesceTimers = 0
  /\ uncaughtError = FALSE

InitHist ==
  /\ log = <<>>
  /\ closeCount = 0
  /\ errorCount = 0
  /\ connectRuns = 0
  /\ manualCount = 0
  /\ updateCount = 0

\* The state of WebSocketClient on its first render (WebSocketClient.tsx
\* 13-15).  App does not render a WebSocketClient.
InitClientState ==
  /\ clientHistory = <<>>
  /\ clientLastMessage = <<>>
  /\ clientDelivered = <<>>

InitClient == InitClientState /\ clientMounted = FALSE

\* After the first render and the mount effect, which calls connectWebSocket.
InitConn ==
  /\ sockets = connectWebSocket(<<>>, 0).sockets
  /\ ws = connectWebSocket(<<>>, 0).ws
  /\ timers = <<>>
  /\ reconnectTimeout = 0
  /\ tornDown = FALSE

(***************************************************************************)
(* Socket events.                                                          *)
(***************************************************************************)
\* The open event of socket s, and its onopen handler (App.tsx 192-198).
OpenEvent(s) ==
  /\ sockets[s].readyState = "CONNECTING"
  /\ sockets' = [sockets EXCEPT ![s].readyState = "OPEN"]
  /\ IF sockets[s].onopen
     THEN /\ wsState' = [wsState EXCEPT !.isConnected = TRUE]
          /\ timers' = IF reconnectTimeout # 0
                       THEN clearTimeout(timers, reconnectTimeout) ELSE timers
     ELSE UNCHANGED <<wsState, timers>>
  /\ UNCHANGED <<ws, reconnectTimeout, tornDown, histVars, sharedData,
                 quiesceTimers, uncaughtError, sceneVars, clientVars,
                 cellVars, plotVars, heapVars>>

\* Mutant: onerror schedules a reconnect attempt as well as onclose.
CloseEventReconnectsOnError(s, failed) ==
  /\ sockets[s].readyState \in {"CONNECTING", "OPEN", "CLOSING"}
  /\ sockets[s].readyState = "CONNECTING" => failed
  /\ sockets' = [sockets EXCEPT ![s].readyState = "CLOSED"]
  /\ wsState' = IF (failed /\ sockets[s].onerror) \/ sockets[s].onclose
                THEN [wsState EXCEPT !.isConnected = FALSE] ELSE wsState
  /\ LET afterError == IF failed /\ sockets[s].onerror /\ ws # 0
                       THEN setTimeout(timers) ELSE timers
     IN IF sockets[s].onclose /\ ws # 0
        THEN /\ timers' = setTimeout(afterError)
             /\ reconnectTimeout' = Len(afterError) + 1
        ELSE /\ timers' = afterError
             /\ reconnectTimeout' = IF Len(afterError) > Len(timers)
                                    THEN Len(afterError) ELSE reconnectTimeout
  /\ closeCount' = IF sockets[s].onclose THEN closeCount + 1 ELSE closeCount
  /\ errorCount' = IF failed /\ sockets[s].onerror THEN errorCount + 1 ELSE errorCount
  /\ UNCHANGED <<ws, tornDown, log, connectRuns, manualCount, updateCount, sharedData,
                 quiesceTimers, uncaughtError, sceneVars, clientVars,
                 cellVars, plotVars, heapVars>>

\* Mutant: the close handler schedules a reconnect only after a clean close.
CloseEventNoReconnectAfterError(s, failed) ==
  /\ sockets[s].readyState \in {"CONNECTING", "OPEN", "CLOSING"}
  /\ sockets[s].readyState = "CONNECTING" => failed
  /\ sockets' = [sockets EXCEPT ![s].readyState = "CLOSED"]
  /\ wsState' = IF (failed /\ sockets[s].onerror) \/ sockets[s].onclose
                THEN [wsState EXCEPT !.isConnected = FALSE] ELSE wsState
  /\ IF sockets[s].onclose /\ ws # 0 /\ ~failed
     THEN /\ timers' = setTimeout(timers)
          /\ reconnectTimeout' = Len(timers) + 1
     ELSE UNCHANGED <<timers, reconnectTimeout>>
  /\ closeCount' = IF sockets[s].onclose THEN closeCount + 1 ELSE closeCount
  /\ errorCount' = IF failed /\ sockets[s].onerror THEN errorCount + 1 ELSE errorCount
  /\ UNCHANGED <<ws, tornDown, log, connectRuns, manualCount, updateCount, sharedData,
                 quiesceTimers, uncaughtError, sceneVars, clientVars,
                 cellVars, plotVars, heapVars>>

\* Mutant: the close handler sets a fresh state instead of spreading prev.
CloseEventResetsState(s, failed) ==
  /\ sockets[s].readyState \in {"CONNECTING", "OPEN", "CLOSING"}
  /\ sockets[s].readyState = "CONNECTING" => failed
  /\ sockets' = [sockets EXCEPT ![s].readyState = "CLOSED"]
  /\ wsState' = IF (failed /\ sockets[s].onerror) \/ sockets[s].onclose
                THEN [isConnected |-> FALSE, lastMessage |-> <<>>,
                      messageHistory |-> <<>>]
                ELSE wsState
  /\ IF sockets[s].onclose /\ ws # 0
     THEN /\ timers' = setTimeout(timers)
          /\ reconnectTimeout' = Len(timers) + 1
     ELSE UNCHANGED <<timers, reconnectTimeout>>
  /\ closeCount' = IF sockets[s].onclose THEN closeCount + 1 ELSE closeCount
  /\ errorCount' = IF failed /\ sockets[s].onerror THEN errorCount + 1 ELSE errorCount
  /\ UNCHANGED <<ws, tornDown, log, connectRuns, manualCount, updateCount, sharedData,
                 quiesceTimers, uncaughtError, sceneVars, clientVars,
                 cellVars, plotVars, heapVars>>

\* The socket s is closed: an error event first when the connection failed,
\* then the close event, both in one task (App.tsx 202-213).
CloseEvent(s, failed) ==
  /\ sockets[s].readyState \in {"CONNECTING", "OPEN", "CLOSING"}
  /\ sockets[s].readyState = "CONNECTING" => failed
  /\ sockets' = [sockets EXCEPT ![s].readyState = "CLOSED"]
  /\ wsState' = IF (failed /\ sockets[s].onerror) \/ sockets[s].onclose
                THEN [wsState EXCEPT !.isConnected = FALSE] ELSE wsState
  /\ IF sockets[s].onclose /\ ws # 0
     THEN /\ timers' = setTimeout(timers)
          /\ reconnectTimeout' = Len(timers) + 1
     ELSE UNCHANGED <<timers, reconnectTimeout>>
  /\ closeCount' = IF sockets[s].onclose THEN closeCount + 1 ELSE closeCount
  /\ errorCount' = IF failed /\ sockets[s].onerror THEN errorCount + 1 ELSE errorCount
  /\ UNCHANGED <<ws, tornDown, log, connectRuns, manualCount, updateCount, sharedData,
                 quiesceTimers, uncaughtError, sceneVars, clientVars,
                 cellVars, plotVars, heapVars>>

\* A reconnect timer fires and runs connectWebSocket.  All reconnect timers
\* have the same delay, so they fire in the order they were scheduled.
ReconnectTimerFires(t) ==
  /\ timers[t] = "pending"
  /\ \A u \in 1..(t - 1) : timers[u] # "pending"
  /\ ~AlreadyConnected(sockets, ws) => Len(sockets) < MaxSockets
  /\ timers' = [timers EXCEPT ![t] = "fired"]
  /\ sockets' = connectWebSocket(sockets, ws).sockets
  /\ ws' = connectWebSocket(sockets, ws).ws
  /\ connectRuns' = connectRuns + 1
  /\ UNCHANGED <<reconnectTimeout, tornDown, log, closeCount, errorCount,
                 manualCount, updateCount, storeVars, sceneVars, clientVars,
                 cellVars, plotVars, heapVars>>

\* The Reconnect button, rendered while !wsState.isConnected (App.tsx 242-247,
\* 270-277).
handleManualReconnect ==
  /\ ~wsState.isConnected
  /\ ~tornDown
  /\ Len(sockets) < MaxSockets
  /\ LET closed == IF ws # 0
                   THEN [sockets EXCEPT ![ws] = CloseMethod(sockets[ws])]
                   ELSE sockets
     IN /\ sockets' = connectWebSocket(closed, ws).sockets
        /\ ws' = connectWebSocket(closed, ws).ws
  /\ manualCount' = manualCount + 1
  /\ UNCHANGED <<timers, reconnectTimeout, tornDown, log, closeCount, errorCount,
                 connectRuns, updateCount, storeVars, sceneVars, clientVars,
                 cellVars, plotVars, heapVars>>

\* The cleanup of the connection effect (App.tsx 224-239).
Cleanup ==
  /\ ~tornDown
  /\ tornDown' = TRUE
  /\ timers' = CleanupTimers(timers, reconnectTimeout)
  /\ sockets' = CleanupSockets(sockets, ws)
  /\ ws' = 0
  /\ UNCHANGED <<reconnectTimeout, histVars, storeVars, sceneVars, clientVars,
                 cellVars, plotVars, heapVars>>

(***************************************************************************)
(* handleMessage (App.tsx 123-181) on a message event of socket s.         *)
(***************************************************************************)
\* The residual plot is an element of the residual tab, rendered when the
\* store has the field res (App.tsx 318-334).
PlotShown(tab, value, crashed) == ~crashed /\ tab = "residual" /\ "res" \in DOMAIN value

\* The state visibleSeries after a render: useState takes its initial value,
\* the keys of data, when the plot is mounted, and keeps its state while
\* the plot stays mounted (part_002 52).
VisibleAfterRender(wasShown, isShown, value, visible) ==
  IF ~isShown THEN {}
  ELSE IF wasShown THEN visible
  ELSE Keys(value["res"])

HiddenAfterRender(wasShown, isShown, hidden) ==
  IF isShown /\ wasShown THEN hidden ELSE {}

\* The state after setSharedData's updater; when the updater throws, React
\* keeps the previous state.
setSharedDataOnMessage(prev, data) ==
  IF UpdaterThrows(prev.value, data) THEN prev
  ELSE [value |-> UpdatedValue(prev.value, data),
        lastUpdate |-> "date", status |-> "updating"]

setWsStateOnMessage(prev, frame) ==
  [isConnected |-> prev.isConnected,
   lastMessage |-> <<JSONParse(frame)>>,
   messageHistory |->
     updateMessageHistory(prev.messageHistory, frame, DefaultMaxMessages)]

\* An updater that throws fails the render: React unmounts the tree, which
\* runs the cleanup of the connection effect.
MessageEvent(s, frame) ==
  /\ sockets[s].readyState = "OPEN"
  /\ sockets[s].onmessage
  /\ log' = Append(log, frame)
  /\ IF JSONParseThrows(frame)
     THEN /\ sharedData' = [sharedData EXCEPT !.status = "error"]
          /\ UNCHANGED <<wsState, quiesceTimers, uncaughtError, connVars, updateCount>>
     ELSE /\ wsState' = setWsStateOnMessage(wsState, frame)
          /\ sharedData' = setSharedDataOnMessage(sharedData, JSONParse(frame))
          /\ quiesceTimers' = quiesceTimers + 1
          /\ IF UpdaterThrows(sharedData.value, JSONParse(frame))
             THEN /\ uncaughtError' = TRUE
                  /\ tornDown' = TRUE
                  /\ timers' = CleanupTimers(timers, reconnectTimeout)
                  /\ sockets' = CleanupSockets(sockets, ws)
                  /\ ws' = 0
                  /\ UNCHANGED <<reconnectTimeout, updateCount>>
             ELSE /\ updateCount' = updateCount + 1
                  /\ UNCHANGED <<uncaughtError, connVars>>
  /\ visibleSeries' =
       VisibleAfterRender(PlotShown(activeTab, sharedData.value, uncaughtError),
                          PlotShown(activeTab, sharedData'.value, uncaughtError'),
                          sharedData'.value, visibleSeries)
  /\ userHidden' =
       HiddenAfterRender(PlotShown(activeTab, sharedData.value, uncaughtError),
                         PlotShown(activeTab, sharedData'.value, uncaughtError'),
                         userHidden)
  /\ UNCHANGED <<closeCount, errorCount, connectRuns, manualCount, sceneVars, clientVars,
                 cellVars, activeTab, startIndex, heapVars>>

\* Mutant: the callback leaves the status as it is.
QuiescenceTimerKeepsStatus ==
  /\ quiesceTimers > 0
  /\ quiesceTimers' = quiesceTimers - 1
  /\ UNCHANGED <<sharedData, connVars, histVars, wsState, uncaughtError, sceneVars,
                 clientVars,
                 cellVars, plotVars, heapVars>>

\* The callback of setTimeout(..., 1000) scheduled by handleMessage
\* (App.tsx 168-173): it is never cancelled.
QuiescenceTimerFires ==
  /\ quiesceTimers > 0
  /\ quiesceTimers' = quiesceTimers - 1
  /\ sharedData' = [sharedData EXCEPT !.status = "idle"]
  /\ UNCHANGED <<connVars, histVars, wsState, uncaughtError, sceneVars, clientVars,
                 cellVars, plotVars, heapVars>>

(***************************************************************************)
(* handleMessage of WebSocketClient (WebSocketClient.tsx 20-30) on a        *)
(* message event of its socket.  The prop onMessage is taken not to throw. *)
(***************************************************************************)
ClientSliceKeep == 19

\* JSON.stringify(data) of a decoded frame, else event.data as received.
ClientEntry(frame) ==
  IF JSONParseThrows(frame)
  THEN [kind |-> "text", payload |-> frame.payload]
  ELSE [kind |-> "json", payload |-> JSONParse(frame)]

ClientMessageEvent(frame) ==
  /\ clientMounted
  /\ log' = Append(log, frame)
  /\ clientHistory' =
       Append(SliceLast(clientHistory, ClientSliceKeep), ClientEntry(frame))
  /\ clientLastMessage' =
       IF JSONParseThrows(frame) THEN clientLastMessage ELSE <<JSONParse(frame)>>
  /\ clientDelivered' = Append(clientDelivered, ClientEntry(frame).payload)
  /\ UNCHANGED <<clientMounted, connVars, closeCount, errorCount, connectRuns,
                 manualCount, updateCount, storeVars, sceneVars,
                 cellVars, plotVars, heapVars>>

(***************************************************************************)
(* The scene projection (Scene.tsx).  The props of Scene: mesh gives each  *)
(* mesh its number of points, valueOnMesh gives each field, per mesh, its  *)
(* values.  Opacities are in tenths.                                       *)
(***************************************************************************)
MeshNames == {"region1", "region2"}
ValueFields == {"temp"}
SceneValues == {10, 20, 30}
SelectableValues == {"", "temp", "p"}

AlphaDefault == 10   \* alpha: 1.0 of the default colour
AlphaShaded == 7     \* alpha: 0.7 of a mapped colour
NaN == -1            \* a channel computed from 0 / 0

ValueArrays == UNION {[1..n -> SceneValues] : n \in 0..MaxPoints}
SceneInputs ==
  [mesh : [MeshNames -> 0..MaxPoints],
   valueOnMesh : {EmptyObject} \cup [ValueFields -> [MeshNames -> ValueArrays]],
   geometry : {EmptyObject}]

\* The geometry prop: each name has a list of lines, a line is a pair of
\* points [x, y].  The coordinates are numbers of the message (doubles); one
\* of them has no single-precision representation.
GeometryNames == {"inlet", "wall"}
Segments ==
  {<<<<0, 0>>, <<1, 0>>>>, <<<<1, 0>>, <<16777217, 1>>>>, <<<<0, 1>>, <<0, 0>>>>}
LineLists == UNION {[1..n -> Segments] : n \in 0..MaxLines}
GeometryInputs ==
  [mesh : {[m \in MeshNames |-> 0]},
   valueOnMesh : {EmptyObject},
   geometry : [GeometryNames -> LineLists]]

RECURSIVE SeqMin(_), SeqMax(_)
SeqMin(a) ==
  IF Len(a) = 1 THEN a[1]
  ELSE IF a[1] < SeqMin(Tail(a)) THEN a[1] ELSE SeqMin(Tail(a))
SeqMax(a) ==
  IF Len(a) = 1 THEN a[1]
  ELSE IF a[1] > SeqMax(Tail(a)) THEN a[1] ELSE SeqMax(Tail(a))

\* Object.values(byMesh).flat(), in some order of the meshes.
RECURSIVE FlatValues(_)
FlatValues(byMesh) ==
  IF DOMAIN byMesh = {} THEN <<>>
  ELSE LET m == CHOOSE x \in DOMAIN byMesh : TRUE
       IN byMesh[m] \o FlatValues([x \in (DOMAIN byMesh) \ {m} |-> byMesh[x]])

\* Mutant: the range is taken over the values of one mesh.
SceneValueRangeOfOneMesh(selected, valueOnMesh) ==
  IF selected = "" \/ selected \notin DOMAIN valueOnMesh
  THEN [defined |-> FALSE, empty |-> FALSE, min |-> 0, max |-> 0]
  ELSE LET m == CHOOSE x \in DOMAIN valueOnMesh[selected] : TRUE
           allValues == valueOnMesh[selected][m]
       IN IF allValues = <<>>
          THEN [defined |-> TRUE, empty |-> TRUE, min |-> 0, max |-> 0]
          ELSE [defined |-> TRUE, empty |-> FALSE,
                min |-> SeqMin(allValues), max |-> SeqMax(allValues)]

\* valueRange of Scene (Scene.tsx 136-145).  Math.min() of no values is
\* Infinity and Math.max() is -Infinity: the range is then marked empty.
SceneValueRange(selected, valueOnMesh) ==
  IF selected = "" \/ selected \notin DOMAIN valueOnMesh
  THEN [defined |-> FALSE, empty |-> FALSE, min |-> 0, max |-> 0]
  ELSE LET allValues == FlatValues(valueOnMesh[selected])
       IN IF allValues = <<>>
          THEN [defined |-> TRUE, empty |-> TRUE, min |-> 0, max |-> 0]
          ELSE [defined |-> TRUE, empty |-> FALSE,
                min |-> SeqMin(allValues), max |-> SeqMax(allValues)]

\* Math.min(...x) and Math.max(...x) on an object x keyed by mesh name.  A
\* plain object is not iterable: the spread of the call throws a TypeError.
\* A build that lowers the spread to Math.min.apply(Math, x) reads x as an
\* array-like without length, and calls Math.min(): the range is then
\* Infinity to -Infinity, the range marked empty.
SpreadOfObject ==
  { [throws |-> TRUE,
     range |-> [defined |-> FALSE, empty |-> FALSE, min |-> 0, max |-> 0]],
    [throws |-> FALSE,
     range |-> [defined |-> TRUE, empty |-> TRUE, min |-> 0, max |-> 0]] }

\* valueRange of ViewerControls (ViewerControls.tsx 126-130), on the prop
\* value_on_mesh that App passes (App.tsx 376): field name to mesh name to
\* values.  The set of the outcomes over the builds.
LegendValueRanges(selected, value_on_mesh) ==
  IF selected = "" \/ selected \notin DOMAIN value_on_mesh
  THEN {[throws |-> FALSE,
         range |-> [defined |-> FALSE, empty |-> FALSE, min |-> 0, max |-> 0]]}
  ELSE SpreadOfObject

\* Mutant: a cell beyond the values of its mesh reads the value 0.
ColorValueOrZero(selected, valueOnMesh, key, pointIndex) ==
  IF selected = "" THEN Str(<<>>)
  ELSE IF selected \notin DOMAIN valueOnMesh THEN Undefined
  ELSE IF key \notin DOMAIN valueOnMesh[selected] THEN Undefined
  ELSE IF pointIndex + 1 \notin DOMAIN valueOnMesh[selected][key] THEN Num(0)
  ELSE Num(valueOnMesh[selected][key][pointIndex + 1])

\* colorValue of a cell (Scene.tsx 157):
\*   selectedValue && valueOnMesh?.[selectedValue]?.[key]?.[pointIndex]
ColorValue(selected, valueOnMesh, key, pointIndex) ==
  IF selected = "" THEN Str(<<>>)
  ELSE IF selected \notin DOMAIN valueOnMesh THEN Undefined
  ELSE IF key \notin DOMAIN valueOnMesh[selected] THEN Undefined
  ELSE IF pointIndex + 1 \notin DOMAIN valueOnMesh[selected][key] THEN Undefined
  ELSE Num(valueOnMesh[selected][key][pointIndex + 1])

\* Math.max(lo, Math.min(hi, x))
Clamp(lo, hi, x) == IF x < lo THEN lo ELSE IF x > hi THEN hi ELSE x

Pink == [css |-> "pink", r |-> 255, g |-> 192, b |-> 203]
Rgb(r, g, b) == [css |-> "rgb", r |-> r, g |-> g, b |-> b]

\* The colour of a cell of the scene (Scene.tsx 65-91), over integer values
\* whose quotient (clamped - min) / (max - min) is 0, 0.5 or 1, as it is for
\* SceneValues: the double-precision arithmetic of the code is exact there
\* and its Math.floor is the integer quotient (SceneColourIsExact compares
\* it with MeshCellColorDouble).  min = max divides 0 by 0 and the channels
\* computed from it are NaN.
MeshCellColor(colorValue, valueRange) ==
  IF colorValue.t = "undefined" \/ ~valueRange.defined
  THEN [color |-> Pink, alpha |-> AlphaDefault]
  ELSE LET lo == valueRange.min
           hi == valueRange.max
           clamped == Clamp(lo, hi, colorValue.v)
       IN IF hi = lo
          THEN [color |-> Rgb(255, NaN, NaN), alpha |-> AlphaShaded]
          ELSE IF 2 * (clamped - lo) < hi - lo
          THEN [color |-> Rgb((255 * 2 * (clamped - lo)) \div (hi - lo),
                              (255 * 2 * (clamped - lo)) \div (hi - lo), 255),
                alpha |-> AlphaShaded]
          ELSE [color |-> Rgb(255, (255 * 2 * (hi - clamped)) \div (hi - lo),
                              (255 * 2 * (hi - clamped)) \div (hi - lo)),
                alpha |-> AlphaShaded]

\* visibility[name] as a condition: a missing key is undefined.
Visible(visibility, name) == name \in DOMAIN visibility /\ visibility[name]

\* Mutant: the fill plane is shown only under a selection that is not empty.
ShowValuesOfSelection(visibility, selected) ==
  Visible(visibility, "values") /\ selected # ""
\* showValues of a cell (Scene.tsx 167): App always passes a string.
ShowValues(visibility, selected) == Visible(visibility, "values") /\ TRUE

\* One MeshCell: the fill plane is rendered only when showValues holds, with
\* the opacity of its colour.
MeshCell(selected, visibility, data, key, pointIndex) ==
  LET c == MeshCellColor(ColorValue(selected, data.valueOnMesh, key, pointIndex),
                         SceneValueRange(selected, data.valueOnMesh))
  IN [showValues |-> ShowValues(visibility, selected),
      showWireframe |-> Visible(visibility, "wireframe"),
      color |-> c.color,
      fillOpacity |-> IF ShowValues(visibility, selected) THEN c.alpha ELSE 0]

Cells(data) ==
  UNION {{<<key, i>> : i \in 0..(data.mesh[key] - 1)} : key \in DOMAIN data.mesh}

Scene(selected, visibility, data) ==
  [cell \in Cells(data) |-> MeshCell(selected, visibility, data, cell[1], cell[2])]

\* An element of a Float32Array holding the number x: an integer of
\* magnitude up to 2^24 is kept, one between 2^24 and 2^25 is rounded to the
\* nearest even integer, a tie to the one with an even significand.
Float32(x) ==
  LET mag == IF x < 0 THEN 0 - x ELSE x
      sign == IF x < 0 THEN 0 - 1 ELSE 1
      rounded == IF mag <= 16777216 \/ mag % 2 = 0 THEN mag
                 ELSE IF (mag + 1) % 4 = 0 THEN mag + 1 ELSE mag - 1
  IN sign * rounded

\* positions of one line (Scene.tsx 176-180).
LinePositions(line) ==
  <<Float32(line[1][1]), Float32(line[1][2]), 0,
    Float32(line[2][1]), Float32(line[2][2]), 0>>

\* Mutant: the lines of a name are emitted whether or not it is visible.
GeometryLinesAlways(visibility, geometry) ==
  [name \in DOMAIN geometry |->
     [i \in 1..Len(geometry[name]) |->
        [key |-> <<name, i - 1>>, positions |-> LinePositions(geometry[name][i])]]]

\* The <line> elements of each geometry entry (Scene.tsx 174-196).
GeometryLines(visibility, geometry) ==
  [name \in DOMAIN geometry |->
     IF Visible(visibility, name)
     THEN [i \in 1..Len(geometry[name]) |->
             [key |-> <<name, i - 1>>,
              positions |-> LinePositions(geometry[name][i])]]
     ELSE <<>>]

\* The scene state of App on its first render (App.tsx 77-82), over no data.
InitScene ==
  /\ selectedValue = ""
  /\ sceneVisibility = [wireframe |-> TRUE, values |-> TRUE]
  /\ sceneData = [mesh |-> [m \in MeshNames |-> 0], valueOnMesh |-> EmptyObject,
                  geometry |-> EmptyObject]
  /\ rendered = Scene(selectedValue, sceneVisibility, sceneData)
  /\ renderedLines = GeometryLines(sceneVisibility, sceneData.geometry)

\* The select of ViewerControls: "None" or one of the keys of value_on_mesh
\* (ViewerControls.tsx 57-66, App.tsx 380).
onSelectedValueChange(v) ==
  /\ v \in {""} \cup DOMAIN sceneData.valueOnMesh
  /\ selectedValue' = v
  /\ rendered' = Scene(v, sceneVisibility, sceneData)
  /\ renderedLines' = GeometryLines(sceneVisibility, sceneData.geometry)
  /\ UNCHANGED <<sceneVisibility, sceneData, connVars, histVars, storeVars, clientVars,
                 cellVars, plotVars, heapVars>>

\* A legend checkbox (ViewerControls.tsx 119-124, 133-149): the legend has
\* an item for the wireframe, one for each geometry name, and one for the
\* values when value_on_mesh has a key.
toggleVisibility(name) ==
  /\ name = "values" => DOMAIN sceneData.valueOnMesh # {}
  /\ name \notin {"wireframe", "values"} => name \in DOMAIN sceneData.geometry
  /\ sceneVisibility' = With(sceneVisibility, name, ~Visible(sceneVisibility, name))
  /\ rendered' = Scene(selectedValue, sceneVisibility', sceneData)
  /\ renderedLines' = GeometryLines(sceneVisibility', sceneData.geometry)
  /\ UNCHANGED <<selectedValue, sceneData, connVars, histVars, storeVars, clientVars,
                 cellVars, plotVars, heapVars>>

(***************************************************************************)
(* Double-precision arithmetic, as the colour map of MeshCell uses it      *)
(* (Scene.tsx 71-85).  A natural number of any size is the sequence of its *)
(* digits to the base 2^15, least first, without leading zero digit.  A    *)
(* double is m * 2^e with an odd significand m of at most 53 bits (or 0);  *)
(* every operation rounds its exact result to the nearest such number,     *)
(* ties to the even significand.  The numbers of the colour map are        *)
(* neither negative (every input is >= 0 and every subtraction takes the   *)
(* smaller from the greater) nor out of the exponent range.                *)
(***************************************************************************)
LimbBits == 15
LimbBase == 2 ^ LimbBits
MantissaBits == 53

Limb(a, i) == IF i \in DOMAIN a THEN a[i] ELSE 0
Longer(a, b) == IF Len(a) < Len(b) THEN Len(b) ELSE Len(a)

Trim(a) ==
  LET used == {i \in DOMAIN a : a[i] # 0}
  IN IF used = {} THEN <<>>
     ELSE SubSeq(a, 1, CHOOSE i \in used : \A j \in used : j <= i)

RECURSIVE FromNat(_)
FromNat(n) == IF n = 0 THEN <<>> ELSE <<n % LimbBase>> \o FromNat(n \div LimbBase)

RECURSIVE ToNat(_)
ToNat(a) == IF a = <<>> THEN 0 ELSE a[1] + LimbBase * ToNat(Tail(a))

BitLength(a) ==
  IF a = <<>> THEN 0
  ELSE LimbBits * (Len(a) - 1)
       + (CHOOSE k \in 1..LimbBits : a[Len(a)] < 2 ^ k /\ a[Len(a)] >= 2 ^ (k - 1))

BitAt(a, i) == (Limb(a, (i \div LimbBits) + 1) \div (2 ^ (i % LimbBits))) % 2

RECURSIVE AddFrom(_, _, _, _)
AddFrom(a, b, i, carry) ==
  IF i > Longer(a, b) THEN (IF carry = 0 THEN <<>> ELSE <<carry>>)
  ELSE LET s == Limb(a, i) + Limb(b, i) + carry
       IN <<s % LimbBase>> \o AddFrom(a, b, i + 1, s \div LimbBase)
AddNat(a, b) == AddFrom(a, b, 1, 0)

\* a - b for a >= b
RECURSIVE SubFrom(_, _, _, _)
SubFrom(a, b, i, borrow) ==
  IF i > Len(a) THEN <<>>
  ELSE LET d == a[i] - Limb(b, i) - borrow
       IN <<d % LimbBase>> \o SubFrom(a, b, i + 1, IF d < 0 THEN 1 ELSE 0)
SubNat(a, b) == Trim(SubFrom(a, b, 1, 0))

LessNat(a, b) ==
  IF Len(a) # Len(b) THEN Len(a) < Len(b)
  ELSE \E i \in DOMAIN a :
         a[i] < b[i] /\ \A j \in DOMAIN a : j > i => a[j] = b[j]

\* a * k for k < 2^15
RECURSIVE TimesFrom(_, _, _, _)
TimesFrom(a, k, i, carry) ==
  IF i > Len(a) THEN (IF carry = 0 THEN <<>> ELSE <<carry>>)
  ELSE LET s == a[i] * k + carry
       IN <<s % LimbBase>> \o TimesFrom(a, k, i + 1, s \div LimbBase)
TimesSmall(a, k) == Trim(TimesFrom(a, k, 1, 0))

\* a * 2^k
ShiftLeft(a, k) ==
  LET z == k \div LimbBits
      j == k % LimbBits
  IN Trim([i \in 1..(Len(a) + z + 1) |->
             (Limb(a, i - z) % (2 ^ (LimbBits - j))) * (2 ^ j)
             + (Limb(a, i - z - 1) \div (2 ^ (LimbBits - j)))])

\* the integer part of a / 2^k
ShiftRight(a, k) ==
  LET z == k \div LimbBits
      j == k % LimbBits
  IN IF Len(a) <= z THEN <<>>
     ELSE Trim([i \in 1..(Len(a) - z) |->
                  (a[i + z] \div (2 ^ j))
                  + (Limb(a, i + z + 1) % (2 ^ j)) * (2 ^ (LimbBits - j))])

\* The digit of a quotient: the greatest c with c * d <= r, for r < d * 2^15
\* and a divisor d whose leading digit is 2^14 or more.  The quotient of the
\* two leading digits of r by the leading digit of d is c, c + 1 or c + 2.
QuotientDigit(r, d) ==
  IF LessNat(r, d) THEN 0
  ELSE LET top == Limb(r, Len(d) + 1) * LimbBase + Limb(r, Len(d))
           guess == IF top \div d[Len(d)] < LimbBase
                    THEN top \div d[Len(d)] ELSE LimbBase - 1
       IN CHOOSE c \in (guess - 2)..guess :
            /\ c >= 0
            /\ ~LessNat(r, TimesSmall(d, c))
            /\ LessNat(r, TimesSmall(d, c + 1))

\* Long division, from the digit i of a downwards: quotient and remainder.
RECURSIVE DivFrom(_, _, _, _, _)
DivFrom(a, d, i, q, r) ==
  IF i = 0 THEN [q |-> Trim(q), r |-> r]
  ELSE LET r2 == Trim(<<a[i]>> \o r)
           digit == QuotientDigit(r2, d)
       IN DivFrom(a, d, i - 1, <<digit>> \o q, SubNat(r2, TimesSmall(d, digit)))

\* The quotient of a by d, and a remainder that is empty when the division
\* is exact: both numbers are shifted so that the leading digit of the
\* divisor is 2^14 or more.
DivMod(a, d) ==
  LET k == LimbBits * Len(d) - BitLength(d)
  IN DivFrom(ShiftLeft(a, k), ShiftLeft(d, k), Len(ShiftLeft(a, k)), <<>>, <<>>)

\* m * 2^e with the factors of two moved to the exponent, so that equal
\* numbers are equal records.
Double(m, e) ==
  IF m = <<>> THEN [m |-> <<>>, e |-> 0]
  ELSE LET t == CHOOSE i \in 0..(BitLength(m) - 1) :
                  BitAt(m, i) = 1 /\ \A j \in 0..(i - 1) : BitAt(m, j) = 0
       IN [m |-> ShiftRight(m, t), e |-> e + t]

\* The double nearest to m * 2^e (plus a fraction of the last bit when
\* sticky), ties to even.
RoundToDouble(m, e, sticky) ==
  IF BitLength(m) <= MantissaBits THEN Double(m, e)
  ELSE LET k == BitLength(m) - MantissaBits
           high == ShiftRight(m, k)
           low == sticky \/ ShiftLeft(ShiftRight(m, k - 1), k - 1) # m
           up == BitAt(m, k - 1) = 1 /\ (low \/ BitAt(high, 0) = 1)
       IN Double(IF up THEN AddNat(high, <<1>>) ELSE high, e + k)

Lower(p, q) == IF p.e < q.e THEN p.e ELSE q.e
Aligned(p, e) == ShiftLeft(p.m, p.e - e)

DAdd(p, q) ==
  RoundToDouble(AddNat(Aligned(p, Lower(p, q)), Aligned(q, Lower(p, q))),
                Lower(p, q), FALSE)
\* p - q for p >= q
DSub(p, q) ==
  RoundToDouble(SubNat(Aligned(p, Lower(p, q)), Aligned(q, Lower(p, q))),
                Lower(p, q), FALSE)
DLess(p, q) == LessNat(Aligned(p, Lower(p, q)), Aligned(q, Lower(p, q)))
\* k * p for an integer k < 2^15
DTimesSmall(p, k) == RoundToDouble(TimesSmall(p.m, k), p.e, FALSE)
\* p / q for q # 0: the quotient is computed to 56 bits and more, and the
\* remainder tells whether it is exact.
DDiv(p, q) ==
  LET s == IF MantissaBits + 3 + BitLength(q.m) > BitLength(p.m)
           THEN MantissaBits + 3 + BitLength(q.m) - BitLength(p.m) ELSE 0
      qr == DivMod(ShiftLeft(p.m, s), q.m)
  IN RoundToDouble(qr.q, p.e - s - q.e, qr.r # <<>>)
\* Math.floor, of a number below 2^31
DFloor(p) ==
  IF p.e >= 0 THEN ToNat(ShiftLeft(p.m, p.e)) ELSE ToNat(ShiftRight(p.m, 0 - p.e))
DTwice(p) == IF p.m = <<>> THEN p ELSE [m |-> p.m, e |-> p.e + 1]
DHalf(p) == IF p.m = <<>> THEN p ELSE [m |-> p.m, e |-> p.e - 1]
FromInt(n) == Double(FromNat(n), 0)
\* The number a JSON text such as 0.1 parses to: the double nearest to p / q.
Decimal(p, q) == DDiv(FromInt(p), FromInt(q))
ToInt(p) == DFloor(p)
IsInt(p) == p.e >= 0

\* Mutant: the value is mapped as it is.
DClampNone(lo, hi, v) == v
\* Math.max(lo, Math.min(hi, v)) (Scene.tsx 71)
DClamp(lo, hi, v) == IF DLess(v, lo) THEN lo ELSE IF DLess(hi, v) THEN hi ELSE v

\* normalized < 0.5: factor = normalized * 2 (Scene.tsx 75-79)
BlueToWhite(normalized) ==
  LET factor == DTwice(normalized)
      channel == DFloor(DTimesSmall(factor, 255))
  IN Rgb(channel, channel, 255)

\* Mutant: the upper half scales green and blue by factor, not by 1 - factor.
WhiteToRedByFactor(normalized) ==
  LET factor == DTwice(DSub(normalized, DHalf(FromInt(1))))
      channel == DFloor(DTimesSmall(factor, 255))
  IN Rgb(255, channel, channel)
\* otherwise: factor = (normalized - 0.5) * 2 (Scene.tsx 80-85)
WhiteToRed(normalized) ==
  LET factor == DTwice(DSub(normalized, DHalf(FromInt(1))))
      channel == DFloor(DTimesSmall(DSub(FromInt(1), factor), 255))
  IN Rgb(255, channel, channel)

\* The colour of a cell (Scene.tsx 65-91) in the arithmetic of the code.
\* When min = max the quotient is 0 / 0: NaN < 0.5 is false and the channels
\* computed from it are NaN.
MeshCellColorDouble(colorValue, valueRange) ==
  IF colorValue.t = "undefined" \/ ~valueRange.defined
  THEN [color |-> Pink, alpha |-> AlphaDefault]
  ELSE LET clampedValue == DClamp(valueRange.min, valueRange.max, colorValue.v)
       IN IF valueRange.max = valueRange.min
          THEN [color |-> Rgb(255, NaN, NaN), alpha |-> AlphaShaded]
          ELSE LET normalized == DDiv(DSub(clampedValue, valueRange.min),
                                      DSub(valueRange.max, valueRange.min))
               IN IF DLess(normalized, DHalf(FromInt(1)))
                  THEN [color |-> BlueToWhite(normalized), alpha |-> AlphaShaded]
                  ELSE [color |-> WhiteToRed(normalized), alpha |-> AlphaShaded]

(***************************************************************************)
(* One MeshCell over any props (Scene.tsx 37-122): its colour is a         *)
(* function of colorValue and valueRange alone.  The numbers are the       *)
(* decimal fractions 0.1 .. MaxTenths / 10 and some integers, in double    *)
(* precision, and for each range its midpoint (min + max) / 2.             *)
(***************************************************************************)
CellIntegers == {0, 10, 20, 30, 40}
CellNumbers ==
  {Decimal(k, 10) : k \in 1..MaxTenths} \cup {FromInt(n) : n \in CellIntegers}
CellRanges ==
  {[defined |-> FALSE, empty |-> FALSE, min |-> FromInt(0), max |-> FromInt(0)]}
  \cup {[defined |-> TRUE, empty |-> FALSE, min |-> pair[1], max |-> pair[2]] :
          pair \in {q \in CellNumbers \X CellNumbers : ~DLess(q[2], q[1])}}
\* (min + max) / 2, the double nearest to the midpoint of the range
Midpoint(valueRange) == DHalf(DAdd(valueRange.min, valueRange.max))
CellValues(valueRange) ==
  {Undefined} \cup {Num(n) : n \in CellNumbers \cup {Midpoint(valueRange)}}
CellInputs ==
  UNION {{[colorValue |-> v, valueRange |-> r] : v \in CellValues(r)} :
           r \in CellRanges}

\* The colour before the first render of the cell.
Unrendered ==
  [color |-> [css |-> "none", r |-> 0, g |-> 0, b |-> 0], alpha |-> 0]

\* A cell before any data: no value, no range.
InitCell ==
  /\ cellProps = [colorValue |-> Undefined,
                  valueRange |-> [defined |-> FALSE, empty |-> FALSE,
                                  min |-> FromInt(0), max |-> FromInt(0)]]
  /\ cellColor = Unrendered

\* The cell renders: useMemo computes the colour of its props (Scene.tsx
\* 65-91).
MeshCellRender ==
  /\ cellColor = Unrendered
  /\ cellColor' = MeshCellColorDouble(cellProps.colorValue, cellProps.valueRange)
  /\ UNCHANGED <<cellProps, connVars, histVars, storeVars, sceneVars, clientVars,
                 plotVars, heapVars>>

(***************************************************************************)
(* The residual plot (App.tsx 250-254, 318-334; TimeSeriesPlot, part_002   *)
(* 42-225).  The plot is an element of the residual tab, rendered when the *)
(* store has the field res.                                                *)
(***************************************************************************)
\* arr.length of a sub-series: a number has none (undefined).
LengthOf(x) == IF x.t \in {"arr", "str"} THEN Len(x.v) ELSE NaN

\* Math.max over a set of lengths and 0: NaN when one of them is undefined.
MaxOf(lengths) ==
  IF NaN \in lengths THEN NaN
  ELSE CHOOSE n \in lengths \cup {0} : \A k \in lengths \cup {0} : k <= n

\* maxLength of App (App.tsx 251-254), over the fields res and force.
MaxLength(value) ==
  MaxOf(UNION {{LengthOf(Spread(value[f])[k]) : k \in Keys(value[f])} :
                 f \in {"res", "force"} \cap DOMAIN value})

\* Number(c) of a one-character string.
DigitValue(c) ==
  CASE c = "0" -> 0 [] c = "1" -> 1 [] c = "2" -> 2 [] c = "3" -> 3
    [] c = "4" -> 4 [] c = "5" -> 5 [] c = "6" -> 6 [] c = "7" -> 7
    [] c = "8" -> 8 [] c = "9" -> 9 [] OTHER -> NaN

\* values?.[index], then Number(value) or null (part_002 71-72).  An array
\* or a string has elements; a number has no property index.
SeriesValueAt(values, index) ==
  IF values.t \in {"arr", "str"} /\ index + 1 \in DOMAIN values.v
  THEN IF values.t = "arr" THEN Num(values.v[index + 1])
       ELSE Num(DigitValue(values.v[index + 1]))
  ELSE Null

\* One record of transformedData (part_002 66-76): the index, then an entry
\* for each series of the data that is in visibleSeries.
PlotPoint(data, index, visible) ==
  [name \in {"index"} \cup (Keys(data) \cap visible) |->
     IF name \in Keys(data) \cap visible
     THEN SeriesValueAt(Spread(data)[name], index)
     ELSE Num(index)]

\* transformedData (part_002 60-77): nothing when maxLength is 0, and
\* Array.from of a negative or NaN length is empty.
TransformedData(data, start, maxLength, visible) ==
  IF maxLength = NaN \/ maxLength - start <= 0 THEN <<>>
  ELSE [i \in 1..(maxLength - start) |-> PlotPoint(data, i - 1 + start, visible)]

InitPlot ==
  /\ activeTab = "websocket"
  /\ startIndex = 0
  /\ visibleSeries = {}
  /\ userHidden = {}

\* A click on a tab (App.tsx 84, 256-258, 413-437).
setActiveTab(tab) ==
  /\ tab # activeTab
  /\ ~uncaughtError
  /\ activeTab' = tab
  /\ visibleSeries' =
       VisibleAfterRender(PlotShown(activeTab, sharedData.value, uncaughtError),
                          PlotShown(tab, sharedData.value, uncaughtError),
                          sharedData.value, visibleSeries)
  /\ userHidden' =
       HiddenAfterRender(PlotShown(activeTab, sharedData.value, uncaughtError),
                         PlotShown(tab, sharedData.value, uncaughtError), userHidden)
  /\ UNCHANGED <<startIndex, connVars, histVars, storeVars, sceneVars, clientVars,
                 cellVars, heapVars>>

\* The slider of the plot (part_002 208-215), which the plot renders when
\* maxLength is not 0.
onStartIndexChange(i) ==
  /\ PlotShown(activeTab, sharedData.value, uncaughtError)
  /\ MaxLength(sharedData.value) # 0
  /\ i \in 0..(IF MaxLength(sharedData.value) > 0
               THEN MaxLength(sharedData.value) - 1 ELSE 0)
  /\ i # startIndex
  /\ startIndex' = i
  /\ UNCHANGED <<activeTab, visibleSeries, userHidden, connVars, histVars, storeVars,
                 sceneVars, clientVars, cellVars, heapVars>>

\* A click on a legend entry (part_002 79-87, 168-180): the legend has an
\* entry for each Line, one per key of the data.
toggleSeries(seriesName) ==
  /\ PlotShown(activeTab, sharedData.value, uncaughtError)
  /\ MaxLength(sharedData.value) # 0
  /\ seriesName \in Keys(sharedData.value["res"])
  /\ visibleSeries' = IF seriesName \in visibleSeries
                      THEN visibleSeries \ {seriesName}
                      ELSE visibleSeries \cup {seriesName}
  /\ userHidden' = IF seriesName \in visibleSeries
                   THEN userHidden \cup {seriesName}
                   ELSE userHidden \ {seriesName}
  /\ UNCHANGED <<activeTab, startIndex, connVars, histVars, storeVars, sceneVars,
                 clientVars, cellVars, heapVars>>

(***************************************************************************)
(* The updater of handleMessage statement by statement, on the objects it  *)
(* reads and allocates (App.tsx 133-166).  heap[a] is the object at        *)
(* address a: an array with its elements, or an object whose slots hold    *)
(* numbers, strings and references to other objects.  The messages of      *)
(* this specification carry objects of arrays.                             *)
(***************************************************************************)
Ref(a) == [t |-> "ref", v |-> a]
IsRef(x) == x.t = "ref"
ArrayCell(elems) == [kind |-> "arr", elems |-> elems, slots |-> <<>>]
ObjectCell(slots) == [kind |-> "obj", elems |-> <<>>, slots |-> slots]

\* Object.keys(x) as a list.
RECURSIVE KeySeq(_)
KeySeq(S) ==
  IF S = {} THEN <<>>
  ELSE LET k == CHOOSE x \in S : TRUE IN <<k>> \o KeySeq(S \ {k})

\* JSON.parse builds the members of data.value: each array is a new object.
RECURSIVE ParseSlots(_, _, _)
ParseSlots(h, o, keys) ==
  IF keys = <<>> THEN [heap |-> h, slots |-> <<>>]
  ELSE LET k == Head(keys)
           rest == ParseSlots(IF IsArray(o[k]) THEN Append(h, ArrayCell(o[k].v)) ELSE h,
                              o, Tail(keys))
       IN [heap |-> rest.heap,
           slots |-> With(rest.slots, k,
                          IF IsArray(o[k]) THEN Ref(Len(h) + 1) ELSE o[k])]

\* What a reader holding the address a sees: the contents of a field and of
\* the store reached from a.
DerefField(h, a) ==
  Obj([k \in DOMAIN h[a].slots |->
         IF IsRef(h[a].slots[k]) THEN Arr(h[h[a].slots[k].v].elems)
         ELSE h[a].slots[k]])
DerefStore(h, a) == [f \in DOMAIN h[a].slots |-> DerefField(h, h[a].slots[f].v)]

\* Mutant: updatedValue is the object of the previous state itself.
AliasObject(h, a) == [heap |-> h, ref |-> a]
\* { ...object }: a new object with the same slots.
CopyObject(h, a) == [heap |-> Append(h, ObjectCell(h[a].slots)), ref |-> Len(h) + 1]

IdleUpdater ==
  [pc |-> "idle", data |-> <<>>, payload |-> 0, updatedValue |-> 0, keys |-> <<>>,
   before |-> <<>>]

InitHeap ==
  /\ heap = <<ObjectCell(<<>>)>>
  /\ stateRef = 1
  /\ snapshots = {}
  /\ updater = IdleUpdater

\* handleMessage on a frame that decodes, up to the forEach of the append
\* branch; a message that takes the other branch is merged and returned at
\* once (App.tsx 125-135, 154-165).
HeapMessage(frame) ==
  /\ updater.pc = "idle"
  /\ ~JSONParseThrows(frame)
  /\ LET data == JSONParse(frame)
         parsed == ParseSlots(heap, Spread(data.value), KeySeq(Keys(data.value)))
         h1 == Append(parsed.heap, ObjectCell(parsed.slots))
         payload == Len(h1)
         prevSlots == h1[stateRef].slots
     IN IF data.type = "append" /\ data.field \in DOMAIN prevSlots
        THEN LET copy == CopyObject(h1, prevSlots[data.field].v)
             IN /\ heap' = copy.heap
                /\ updater' = [pc |-> "forEach", data |-> data, payload |-> payload,
                               updatedValue |-> copy.ref,
                               keys |-> KeySeq(Keys(data.value)),
                               before |-> DerefStore(heap, stateRef)]
                /\ UNCHANGED <<stateRef, sharedData, updateCount>>
        ELSE LET old == IF data.field \in DOMAIN prevSlots
                        THEN h1[prevSlots[data.field].v].slots ELSE <<>>
                 h2 == Append(h1, ObjectCell(Assign(old, h1[payload].slots)))
                 h3 == Append(h2, ObjectCell(With(prevSlots, data.field, Ref(Len(h2)))))
             IN /\ heap' = h3
                /\ stateRef' = Len(h3)
                /\ sharedData' = setSharedDataOnMessage(sharedData, data)
                /\ updateCount' = updateCount + 1
                /\ UNCHANGED updater
  /\ log' = Append(log, frame)
  /\ wsState' = setWsStateOnMessage(wsState, frame)
  /\ quiesceTimers' = quiesceTimers + 1
  /\ UNCHANGED <<snapshots, closeCount, errorCount, connectRuns, manualCount,
                 uncaughtError, connVars, sceneVars, clientVars, cellVars, plotVars>>

\* One round of the forEach (App.tsx 137-141): a key whose payload is an
\* array gets, in updatedValue, a new array: the old elements, if any, then
\* the payload.
HeapForEachKey ==
  /\ updater.pc = "forEach"
  /\ updater.keys # <<>>
  /\ LET key == Head(updater.keys)
         incoming == heap[updater.payload].slots[key]
         slots == heap[updater.updatedValue].slots
         target == IF key \in DOMAIN slots /\ IsRef(slots[key])
                   THEN heap[slots[key].v].elems ELSE <<>>
     IN IF IsRef(incoming) /\ heap[incoming.v].kind = "arr"
        THEN heap' = Append([heap EXCEPT ![updater.updatedValue].slots =
                                           With(slots, key, Ref(Len(heap) + 1))],
                            ArrayCell(target \o heap[incoming.v].elems))
        ELSE heap' = heap
  /\ updater' = [updater EXCEPT !.keys = Tail(@)]
  /\ UNCHANGED <<stateRef, snapshots, connVars, histVars, storeVars, sceneVars,
                 clientVars, cellVars, plotVars>>

\* The return of the append branch (App.tsx 143-151): React takes the
\* returned object as the state.
HeapReturn ==
  /\ updater.pc = "forEach"
  /\ updater.keys = <<>>
  /\ heap' = Append(heap, ObjectCell(With(heap[stateRef].slots, updater.data.field,
                                          Ref(updater.updatedValue))))
  /\ stateRef' = Len(heap) + 1
  /\ updater' = IdleUpdater
  /\ sharedData' = setSharedDataOnMessage(sharedData, updater.data)
  /\ updateCount' = updateCount + 1
  /\ UNCHANGED <<snapshots, log, closeCount, errorCount, connectRuns, manualCount,
                 wsState, quiesceTimers, uncaughtError, connVars, sceneVars,
                 clientVars, cellVars, plotVars>>

\* A reader (a render, a memo, a closure) takes the current state object
\* and keeps the reference; the model lets it do so at any point.
HeapSnapshot ==
  /\ Cardinality(snapshots) < MaxSnapshots
  /\ [ref |-> stateRef, contents |-> DerefStore(heap, stateRef)] \notin snapshots
  /\ snapshots' = snapshots \cup
                    {[ref |-> stateRef, contents |-> DerefStore(heap, stateRef)]}
  /\ UNCHANGED <<heap, stateRef, updater, connVars, histVars, storeVars, sceneVars,
                 clientVars, cellVars, plotVars>>

(***************************************************************************)
(* Specifications.                                                         *)
(***************************************************************************)
Init ==
  /\ InitConn /\ InitHist /\ InitStore /\ InitScene /\ InitClient
  /\ InitCell /\ InitPlot /\ InitHeap

Next ==
  \/ \E s \in DOMAIN sockets : OpenEvent(s)
  \/ \E s \in DOMAIN sockets : \E failed \in BOOLEAN : CloseEvent(s, failed)
  \/ \E t \in DOMAIN timers : ReconnectTimerFires(t)
  \/ handleManualReconnect
  \/ Cleanup
  \/ /\ Len(log) < MaxConnMsgs
     /\ \E s \in DOMAIN sockets : \E frame \in ConnFrames(Len(log)) :
          MessageEvent(s, frame)
  \/ QuiescenceTimerFires

Spec == Init /\ [][Next]_vars

\* The connection manager with its timers running: a reconnect timer that is
\* due fires (setTimeout, App.tsx 206).
ConnLiveSpec ==
  Spec /\ WF_vars(\E t \in DOMAIN timers : ReconnectTimerFires(t))

\* The message handler on an established connection.
StoreInit ==
  /\ sockets = <<[NewSocket EXCEPT !.readyState = "OPEN"]>>
  /\ ws = 1
  /\ timers = <<>>
  /\ reconnectTimeout = 0
  /\ tornDown = FALSE
  /\ InitHist
  /\ wsState = [isConnected |-> TRUE, lastMessage |-> <<>>, messageHistory |-> <<>>]
  /\ sharedData = [value |-> EmptyObject, lastUpdate |-> "null", status |-> "idle"]
  /\ quiesceTimers = 0
  /\ uncaughtError = FALSE
  /\ InitScene
  /\ InitClient
  /\ InitCell /\ InitPlot /\ InitHeap

StoreNext ==
  \/ /\ Len(log) < MaxMsgs
     /\ \E frame \in Frames(Len(log)) : MessageEvent(1, frame)
  \/ QuiescenceTimerFires

StoreSpec == StoreInit /\ [][StoreNext]_vars

\* The message histories: either App or a WebSocketClient is mounted, its
\* socket open, and receives frames.
ClientInit ==
  /\ sockets = <<>>
  /\ ws = 0
  /\ timers = <<>>
  /\ reconnectTimeout = 0
  /\ tornDown = FALSE
  /\ InitHist /\ InitStore /\ InitScene
  /\ InitClientState
  /\ clientMounted = TRUE
  /\ InitCell /\ InitPlot /\ InitHeap

HistoryInit == StoreInit \/ ClientInit

TextFramesIn(frames) == {i \in DOMAIN frames : JSONParseThrows(frames[i])}

HistoryNext ==
  \/ /\ Len(log) < MaxHistMsgs
     /\ \E s \in DOMAIN sockets : \E frame \in HistFrames(Len(log)) :
          MessageEvent(s, frame)
  \/ QuiescenceTimerFires
  \/ /\ Len(log) < MaxClientMsgs
     /\ \E frame \in ClientFrames(Len(log)) :
          /\ JSONParseThrows(frame) => Cardinality(TextFramesIn(log)) < MaxClientTexts
          /\ ClientMessageEvent(frame)

HistorySpec == HistoryInit /\ [][HistoryNext]_vars

\* A timer callback that is due is run: every pending quiescence timer fires.
HistoryLiveSpec == HistorySpec /\ WF_vars(QuiescenceTimerFires)

\* The scene over any mesh and value_on_mesh contents, under the selection
\* and the visibility toggles of the viewer.
SceneInit ==
  /\ InitConn /\ InitHist /\ InitStore /\ InitClient
  /\ InitCell /\ InitPlot /\ InitHeap
  /\ selectedValue \in SelectableValues
  /\ sceneVisibility = [wireframe |-> TRUE, values |-> TRUE]
  /\ sceneData \in SceneInputs
  /\ rendered = Scene(selectedValue, sceneVisibility, sceneData)
  /\ renderedLines = GeometryLines(sceneVisibility, sceneData.geometry)

SceneNext ==
  \/ \E v \in SelectableValues : onSelectedValueChange(v)
  \/ \E name \in {"wireframe", "values"} : toggleVisibility(name)

SceneSpec == SceneInit /\ [][SceneNext]_vars

\* The geometry lines over any geometry prop, under the legend toggles.
GeometryInit ==
  /\ InitConn /\ InitHist /\ InitStore /\ InitClient
  /\ InitCell /\ InitPlot /\ InitHeap
  /\ selectedValue = ""
  /\ sceneVisibility = [wireframe |-> TRUE, values |-> TRUE]
  /\ sceneData \in GeometryInputs
  /\ rendered = Scene(selectedValue, sceneVisibility, sceneData)
  /\ renderedLines = GeometryLines(sceneVisibility, sceneData.geometry)

GeometryNext == \E name \in {"wireframe"} \cup GeometryNames : toggleVisibility(name)

GeometrySpec == GeometryInit /\ [][GeometryNext]_vars

\* One MeshCell over any props.
CellInit ==
  /\ InitConn /\ InitHist /\ InitStore /\ InitClient /\ InitScene
  /\ InitPlot /\ InitHeap
  /\ cellProps \in CellInputs
  /\ cellColor = Unrendered

CellNext == MeshCellRender

CellSpec == CellInit /\ [][CellNext]_vars

\* The residual plot of App on an established connection.
PlotNext ==
  \/ /\ Len(log) < MaxPlotMsgs
     /\ \E frame \in PlotFrames(Len(log)) : MessageEvent(1, frame)
  \/ \E tab \in {"websocket", "residual"} : setActiveTab(tab)
  \/ \E i \in 0..MaxPlotMsgs * 3 : onStartIndexChange(i)
  \/ \E name \in {"max", "rms"} : toggleSeries(name)

PlotSpec == StoreInit /\ [][PlotNext]_vars

\* The updater of App statement by statement, with a reader of the state.
HeapNext ==
  \/ /\ Len(log) < MaxHeapMsgs
     /\ \E frame \in HeapFrames(Len(log)) : HeapMessage(frame)
  \/ HeapForEachKey
  \/ HeapReturn
  \/ HeapSnapshot

HeapSpec == StoreInit /\ [][HeapNext]_vars

(***************************************************************************)
(* Vocabulary of the properties.                                           *)
(***************************************************************************)
OpenSockets == {s \in DOMAIN sockets : sockets[s].readyState = "OPEN"}
PendingTimers == {t \in DOMAIN timers : timers[t] = "pending"}
FiredTimers == {t \in DOMAIN timers : timers[t] = "fired"}

IsJson(frame) == frame.kind = "json"
\* The decoded messages received so far for field f, in arrival order.
FieldMessages(f) ==
  LET hits == SelectSeq(log, LAMBDA fr : IsJson(fr) /\ fr.payload.field = f)
  IN [i \in 1..Len(hits) |-> hits[i].payload]

\* This step is handleMessage on a frame; the frame it handled.
HandlesFrame == Len(log') = Len(log) + 1
HandledFrame == log'[Len(log')]

SubKeys == {"max", "rms"}

\* The array payloads the messages ms carry for sub-key k, concatenated.
RECURSIVE PayloadConcat(_, _)
PayloadConcat(ms, k) ==
  IF ms = <<>> THEN <<>>
  ELSE (IF IsArray(Get(Spread(ms[1].value), k))
        THEN Get(Spread(ms[1].value), k).v ELSE <<>>)
       \o PayloadConcat(Tail(ms), k)

IsMappingOfArrays(x) == x.t = "obj" /\ \A k \in DOMAIN x.v : IsArray(x.v[k])
IsScalar(x) == x.t \in {"str", "num"}

(***************************************************************************)
(* C1: in every reachable state at most one socket created by the manager  *)
(* is open.                                                                *)
(***************************************************************************)
C1_AtMostOneOpenSocket == Cardinality(OpenSockets) <= 1

(***************************************************************************)
(* C2: when a message on a field carries an array for a sub-key, and it   *)
(* is the first message on the field or a replace, and every later message *)
(* on that field is an append, the sub-key holds the arrays of these       *)
(* messages concatenated in arrival order, with nothing dropped or         *)
(* deduplicated.                                                           *)
(***************************************************************************)
C2_AppendConcatenatesInOrder ==
  \A f \in Fields : \A k \in SubKeys :
    LET ms == FieldMessages(f)
    IN \A j \in 1..Len(ms) :
         ( /\ ~uncaughtError
           /\ j = 1 \/ ms[j].type = "replace"
           /\ IsArray(Get(Spread(ms[j].value), k))
           /\ \A i \in (j + 1)..Len(ms) : ms[i].type = "append" )
         => /\ f \in DOMAIN sharedData.value
            /\ Get(Spread(sharedData.value[f]), k)
                 = Arr(PayloadConcat(SubSeq(ms, j, Len(ms)), k))

\* The scenario of the spec: append max:[1,2], then append max:[3], on res.
C2_Witness ==
  /\ Len(FieldMessages("res")) = 2
  /\ \A i \in 1..2 : FieldMessages("res")[i].type = "append"
  /\ FieldMessages("res")[1].value = Obj([max |-> Arr(<<1, 2>>)])
  /\ FieldMessages("res")[2].value = Obj([max |-> Arr(<<3>>)])
  /\ sharedData.value["res"] = Obj([max |-> Arr(<<1, 2, 3>>)])

(***************************************************************************)
(* C3: when the messages received for a field are two replace messages     *)
(* with scalar values v1 and then v2, the store shows the field equal to   *)
(* v2.                                                                     *)
(***************************************************************************)
C3_ReplaceScalarShowsValue ==
  \A f \in Fields :
    LET ms == FieldMessages(f)
    IN ( /\ Len(ms) = 2
         /\ \A i \in 1..2 : ms[i].type = "replace" /\ IsScalar(ms[i].value) )
       => Get(sharedData.value, f) = ms[2].value

(***************************************************************************)
(* C4: handling an append message for a field that exists and is not a     *)
(* mapping of arrays leaves the store as a replace message with the same   *)
(* field and value would, and raises no error.                             *)
(***************************************************************************)
C4_AppendDegradesToReplace ==
  [][ ( /\ HandlesFrame
        /\ IsJson(HandledFrame)
        /\ HandledFrame.payload.type = "append"
        /\ HandledFrame.payload.field \in DOMAIN sharedData.value
        /\ ~IsMappingOfArrays(sharedData.value[HandledFrame.payload.field]) )
      => /\ ~uncaughtError'
         /\ sharedData'.value =
              UpdatedValue(sharedData.value,
                           [HandledFrame.payload EXCEPT !.type = "replace"]) ]_vars

(***************************************************************************)
(* C5: handling a frame that does not decode leaves the store contents     *)
(* unchanged and adds exactly one entry, the raw text of the frame, to the *)
(* message history.                                                        *)
(***************************************************************************)
C5_UndecodableFrameGoesToHistory ==
  [][ (HandlesFrame /\ ~IsJson(HandledFrame))
      => /\ sharedData'.value = sharedData.value
         /\ wsState'.messageHistory =
              Append(wsState.messageHistory,
                     [kind |-> "text", payload |-> HandledFrame.payload]) ]_vars

(***************************************************************************)
(* C6: once the cleanup has run, no step changes the connection status,    *)
(* the message history or the store.                                       *)
(***************************************************************************)
C6_NothingChangesAfterTeardown ==
  [][ tornDown => (wsState' = wsState /\ sharedData' = sharedData) ]_vars

(***************************************************************************)
(* C7: with no field selected every mesh cell has fill opacity zero.       *)
(***************************************************************************)
C7_NoSelectionZeroFill ==
  selectedValue = "" => \A cell \in DOMAIN rendered : rendered[cell].fillOpacity = 0

(***************************************************************************)
(* C8: no step shortens, removes or replaces by a non-array an array-valued *)
(* sub-series of a field.                                                  *)
(***************************************************************************)
SeriesKept(f) ==
  \A k \in DOMAIN Spread(sharedData.value[f]) :
    IsArray(Spread(sharedData.value[f])[k])
      => /\ f \in DOMAIN sharedData'.value
         /\ IsArray(Get(Spread(sharedData'.value[f]), k))
         /\ Len(Get(Spread(sharedData'.value[f]), k).v)
              >= Len(Spread(sharedData.value[f])[k].v)

HandlesOpen ==
  \E s \in DOMAIN sockets :
    /\ sockets[s].onopen
    /\ sockets[s].readyState = "CONNECTING"
    /\ sockets'[s].readyState = "OPEN"

C9_OpenCancelsReconnectTimers ==
  [][ HandlesOpen
      => (wsState'.isConnected /\ \A t \in DOMAIN timers' : timers'[t] # "pending")
    ]_vars

(***************************************************************************)
(* C10: while the manager is not torn down, the close events handled so    *)
(* far have scheduled exactly one reconnect timer each; and when no manual *)
(* reconnect was requested, the sockets closing in turn, no timer was      *)
(* cancelled, at most one is pending, and each timer that fired ran        *)
(* connectWebSocket once, which created one socket.                        *)
(***************************************************************************)
C10_OneReconnectPerClose ==
  /\ ~tornDown => Len(timers) = closeCount
  /\ connectRuns = Cardinality(FiredTimers)
  /\ (manualCount = 0 /\ ~tornDown)
       => /\ \A t \in DOMAIN timers : timers[t] # "cleared"
          /\ Cardinality(PendingTimers) <= 1
          /\ Len(sockets) = 1 + connectRuns

\* Two sockets closed in turn, and both reconnect attempts ran.
C10_Witness ==
  /\ manualCount = 0
  /\ ~tornDown
  /\ closeCount = 2
  /\ Cardinality(FiredTimers) = 2
  /\ Len(sockets) = 3

(***************************************************************************)
(* C11: the step in which a socket's error event is handled, on a manager  *)
(* that is not torn down, leaves the status disconnected and one more      *)
(* reconnect timer pending, the one reconnectTimeout refers to.  The error *)
(* event is dispatched together with the close event of the failed socket; *)
(* the timer is the one the close handler sets.                            *)
(***************************************************************************)
HandlesError == errorCount' = errorCount + 1

C11_ErrorSchedulesReconnect ==
  [][ (HandlesError /\ ~tornDown)
      => /\ ~wsState'.isConnected
         /\ Len(timers') = Len(timers) + 1
         /\ timers'[Len(timers')] = "pending"
         /\ reconnectTimeout' = Len(timers') ]_vars

\* A connection attempt failed: the status is disconnected, a timer pending.
C11_Witness ==
  /\ errorCount = 1
  /\ closeCount = 1
  /\ ~tornDown
  /\ ~wsState.isConnected
  /\ PendingTimers = {1}
  /\ reconnectTimeout = 1

(***************************************************************************)
(* C12: handling a decoded message that has no field key leaves the store  *)
(* contents as they were, and no updater throws.                           *)
(***************************************************************************)
C12_MissingFieldIsDropped ==
  [][ (HandlesFrame /\ IsJson(HandledFrame) /\ HandledFrame.payload.field = NoField)
      => (sharedData'.value = sharedData.value /\ ~uncaughtError') ]_vars

(***************************************************************************)
(* C13: from every reachable store, two append messages on one field whose *)
(* payloads are mappings of arrays under disjoint keys leave the same      *)
(* store contents in either order of arrival.                              *)
(***************************************************************************)
AppendMessages ==
  {fr.payload : fr \in {x \in Frames(0) : IsJson(x) /\ x.payload.type = "append"}}

C13_DisjointAppendsCommute ==
  ~uncaughtError =>
    \A A \in AppendMessages : \A B \in AppendMessages :
      ( /\ A.field = B.field
        /\ IsMappingOfArrays(A.value) /\ IsMappingOfArrays(B.value)
        /\ Keys(A.value) \cap Keys(B.value) = {} )
      => HandleAll(sharedData.value, <<A, B>>) = HandleAll(sharedData.value, <<B, A>>)

(***************************************************************************)
(* C14: handling a replace message right after a replace message with the  *)
(* same field and value leaves the store contents as the first left them.  *)
(***************************************************************************)
RepeatsLastReplace ==
  /\ HandlesFrame
  /\ Len(log) >= 1
  /\ IsJson(HandledFrame) /\ IsJson(log[Len(log)])
  /\ HandledFrame.payload.type = "replace"
  /\ log[Len(log)].payload.type = "replace"
  /\ HandledFrame.payload.field = log[Len(log)].payload.field
  /\ HandledFrame.payload.value = log[Len(log)].payload.value

C14_ReplaceIsIdempotent ==
  [][ RepeatsLastReplace => sharedData'.value = sharedData.value ]_vars

\* The same replace on res arrived twice, after an append that made res longer.
C14_Witness ==
  /\ Len(log) = 3
  /\ \A i \in 2..3 :
       /\ IsJson(log[i])
       /\ log[i].payload.type = "replace"
       /\ log[i].payload.field = "res"
       /\ log[i].payload.value = Obj([max |-> Arr(<<3>>)])
  /\ IsJson(log[1]) /\ log[1].payload = Message("append", "res", Obj([max |-> Arr(<<1, 2>>)]), 1000)
  /\ sharedData.value = [res |-> Obj([max |-> Arr(<<3>>)])]

(***************************************************************************)
(* C15: handling a replace message whose value is an object gives each     *)
(* sub-key the value names the incoming payload itself, leaves every other *)
(* sub-key of the field as it was, and leaves every other field as it was. *)
(***************************************************************************)
C15_ReplaceIsShallowMerge ==
  [][ ( /\ HandlesFrame
        /\ IsJson(HandledFrame)
        /\ HandledFrame.payload.type = "replace"
        /\ HandledFrame.payload.value.t = "obj" )
      => LET f == HandledFrame.payload.field
             incoming == HandledFrame.payload.value.v
             old == Spread(Get(sharedData.value, f))
         IN /\ DOMAIN sharedData'.value = (DOMAIN sharedData.value) \cup {f}
            /\ \A g \in (DOMAIN sharedData.value) \ {f} :
                  sharedData'.value[g] = sharedData.value[g]
            /\ sharedData'.value[f].t = "obj"
            /\ DOMAIN sharedData'.value[f].v = (DOMAIN old) \cup (DOMAIN incoming)
            /\ \A k \in DOMAIN incoming : sharedData'.value[f].v[k] = incoming[k]
            /\ \A k \in (DOMAIN old) \ (DOMAIN incoming) :
                  sharedData'.value[f].v[k] = old[k] ]_vars

\* A replace of rms on a res that held max: max survives, rms is added.
C15_Witness ==
  /\ Len(log) = 2
  /\ IsJson(log[2])
  /\ log[2].payload.type = "replace"
  /\ log[2].payload.field = "res"
  /\ log[2].payload.value = Obj([rms |-> Arr(<<3>>)])
  /\ sharedData.value = [res |-> Obj([max |-> Arr(<<1, 2>>), rms |-> Arr(<<3>>)])]

AppendsOneEntry(before, after, entry, maxMessages) ==
  /\ after # <<>>
  /\ after[Len(after)] = entry
  /\ Len(after) = (IF Len(before) + 1 < maxMessages THEN Len(before) + 1 ELSE maxMessages)
  /\ SubSeq(after, 1, Len(after) - 1)
       = SubSeq(before, Len(before) - Len(after) + 2, Len(before))

C17_OneUpdateAndOneEntryPerFrame ==
  [][ (HandlesFrame /\ IsJson(HandledFrame))
      => /\ updateCount' = updateCount + 1
         /\ AppendsOneEntry(wsState.messageHistory, wsState'.messageHistory,
                            [kind |-> "summary",
                             payload |-> [field |-> HandledFrame.payload.field,
                                          type |-> HandledFrame.payload.type,
                                          timestamp |-> HandledFrame.payload.timestamp]],
                            5) ]_vars

(***************************************************************************)
(* C18: the message history of App holds at most 5 entries, the summaries  *)
(* of the most recent decoded frames in arrival order; the message history *)
(* of WebSocketClient holds at most 20 entries, those of the most recent   *)
(* frames in arrival order.                                                *)
(***************************************************************************)
\* The last n elements of a sequence, or all of it.
MostRecent(entries, n) ==
  [i \in 1..(IF Len(entries) < n THEN Len(entries) ELSE n) |->
     entries[i + (IF Len(entries) < n THEN 0 ELSE Len(entries) - n)]]

DecodedFrames == SelectSeq(log, IsJson)

C18_HistoryIsBoundedAndRecent ==
  IF clientMounted
  THEN /\ Len(clientHistory) <= 20
       /\ clientHistory = MostRecent([i \in DOMAIN log |-> ClientEntry(log[i])], 20)
  ELSE /\ Len(wsState.messageHistory) <= 5
       /\ wsState.messageHistory
            = MostRecent([i \in DOMAIN DecodedFrames |->
                           [kind |-> "summary",
                            payload |-> [field |-> DecodedFrames[i].payload.field,
                                         type |-> DecodedFrames[i].payload.type,
                                         timestamp |-> DecodedFrames[i].payload.timestamp]]],
                         5)

\* Six decoded frames reached App: its history holds the last five.
C18_Witness ==
  /\ ~clientMounted
  /\ Len(DecodedFrames) = 6
  /\ Len(wsState.messageHistory) = 5
  /\ wsState.messageHistory[1].payload.timestamp = 1001
  /\ wsState.messageHistory[5].payload.timestamp = 1005

\* Twenty-one frames reached WebSocketClient: its history holds the last twenty.
C18_ClientWitness ==
  /\ clientMounted
  /\ Len(log) = 21
  /\ Len(clientHistory) = 20
  /\ clientHistory[1] = ClientEntry(log[2])

(***************************************************************************)
(* C19: every entry of a message history is at most MAX_MESSAGE_LENGTH     *)
(* characters and the ellipsis long.                                       *)
(***************************************************************************)
C19_HistoryEntriesAreBounded ==
  /\ \A i \in DOMAIN wsState.messageHistory :
       EntryLength(wsState.messageHistory[i]) <= MAX_MESSAGE_LENGTH + Len(Ellipsis)
  /\ \A i \in DOMAIN clientHistory :
       EntryLength(clientHistory[i]) <= MAX_MESSAGE_LENGTH + Len(Ellipsis)

(***************************************************************************)
(* C20: the step that applies an update leaves the status updating; a      *)
(* status updating is followed by the status idle, the quiescence timers   *)
(* firing; and while a quiescence timer is pending App can handle the next *)
(* frame, which is applied in the step that handles it.                    *)
(***************************************************************************)
AppliesUpdate == updateCount' = updateCount + 1

HandlesNextFrame ==
  \E s \in DOMAIN sockets : \E frame \in HistFrames(Len(log)) : MessageEvent(s, frame)

C20_UpdatingRevertsToIdle ==
  /\ [][ AppliesUpdate => sharedData'.status = "updating" ]_vars
  /\ (sharedData.status = "updating") ~> (sharedData.status = "idle")
  /\ []( (quiesceTimers > 0 /\ ~clientMounted /\ ~tornDown)
            => ENABLED HandlesNextFrame )
  /\ [][ (HandlesFrame /\ IsJson(HandledFrame) /\ quiesceTimers > 0 /\ ~uncaughtError')
          => AppliesUpdate ]_vars

\* A second update was applied while the timer of the first was pending.
C20_Witness ==
  /\ updateCount = 2
  /\ quiesceTimers = 2
  /\ sharedData.status = "updating"
  /\ Len(log) = 2

(***************************************************************************)
(* C22: when the value range of the selected field has min = max, every    *)
(* cell that has a value gets a colour whose channels are numbers, with    *)
(* alpha 1.0, the same for all of them: nothing is computed from 0 / 0.    *)
(***************************************************************************)
ValuedCells ==
  {cell \in DOMAIN rendered :
     ColorValue(selectedValue, sceneData.valueOnMesh, cell[1], cell[2]).t = "num"}

C22_FlatRangeIsNeutral ==
  LET range == SceneValueRange(selectedValue, sceneData.valueOnMesh)
  IN (range.defined /\ ~range.empty /\ range.min = range.max) =>
       \A cell \in ValuedCells :
         /\ NaN \notin {rendered[cell].color.r, rendered[cell].color.g,
                         rendered[cell].color.b}
         /\ rendered[cell].showValues => rendered[cell].fillOpacity = AlphaDefault
         /\ \A other \in ValuedCells : rendered[other].color = rendered[cell].color

(***************************************************************************)
(* C23: for a range with min < max every channel of the colour of a value  *)
(* is an integer from 0 to 255 and alpha is between 0 and 1; a value below *)
(* min has the colour of min, a value above max the colour of max.         *)
(***************************************************************************)
MapsNumber ==
  /\ cellColor # Unrendered
  /\ cellProps.colorValue.t = "num"
  /\ cellProps.valueRange.defined
  /\ DLess(cellProps.valueRange.min, cellProps.valueRange.max)

InSceneValues(n) == n \in {FromInt(v) : v \in SceneValues}
SceneColourIsExact ==
  (/\ cellColor # Unrendered
   /\ cellProps.colorValue.t = "num" => InSceneValues(cellProps.colorValue.v)
   /\ cellProps.valueRange.defined =>
        /\ InSceneValues(cellProps.valueRange.min)
        /\ InSceneValues(cellProps.valueRange.max))
  => cellColor =
       MeshCellColor(IF cellProps.colorValue.t = "num"
                     THEN Num(ToInt(cellProps.colorValue.v)) ELSE Undefined,
                     [defined |-> cellProps.valueRange.defined, empty |-> FALSE,
                      min |-> ToInt(cellProps.valueRange.min),
                      max |-> ToInt(cellProps.valueRange.max)])

(***************************************************************************)
(* C24: for a range with min < max the colour of min is (0, 0, 255), the   *)
(* colour of max is (255, 0, 0) and the colour of the midpoint             *)
(* (min + max) / 2 is (255, 255, 255).                                     *)
(***************************************************************************)
IsMidpoint == cellProps.colorValue.v = Midpoint(cellProps.valueRange)

NearWhite == {Rgb(255, 255, 255), Rgb(255, 254, 254), Rgb(254, 254, 255)}

C24_ExampleIsWhite ==
  /\ MapsNumber
  /\ cellProps.colorValue.v = FromInt(20)
  /\ cellProps.valueRange.min = FromInt(10)
  /\ cellProps.valueRange.max = FromInt(30)
  /\ cellColor.color = Rgb(255, 255, 255)

(***************************************************************************)
(* C25: with a field selected, every cell that has a value is coloured by  *)
(* the range from the least to the greatest value of the field over all    *)
(* meshes, so cells with equal values have equal colours in every mesh.    *)
(***************************************************************************)
SelectedByMesh == sceneData.valueOnMesh[selectedValue]
SelectedValues ==
  UNION {{SelectedByMesh[m][i] : i \in DOMAIN SelectedByMesh[m]} :
           m \in DOMAIN SelectedByMesh}
GlobalRange ==
  [defined |-> TRUE, empty |-> FALSE,
   min |-> CHOOSE v \in SelectedValues : \A w \in SelectedValues : v <= w,
   max |-> CHOOSE v \in SelectedValues : \A w \in SelectedValues : w <= v]
CellValue(cell) == SelectedByMesh[cell[1]][cell[2] + 1]

C25_RangeIsGlobal ==
  (selectedValue \in DOMAIN sceneData.valueOnMesh /\ SelectedValues # {}) =>
    /\ \A cell \in ValuedCells :
         rendered[cell].color = MeshCellColor(Num(CellValue(cell)), GlobalRange).color
    /\ \A c1, c2 \in ValuedCells :
         CellValue(c1) = CellValue(c2) => rendered[c1].color = rendered[c2].color

\* Two meshes with different ranges of their own, [10, 20] and [20, 30]:
\* the value 20 is white in both, as the midpoint of [10, 30].
C25_Witness ==
  /\ selectedValue \in DOMAIN sceneData.valueOnMesh
  /\ SelectedByMesh["region1"] = <<10, 20>>
  /\ SelectedByMesh["region2"] = <<20, 30>>
  /\ {<<"region1", 1>>, <<"region2", 0>>} \subseteq DOMAIN rendered
  /\ rendered[<<"region1", 1>>].color = Rgb(255, 255, 255)
  /\ rendered[<<"region2", 0>>].color = Rgb(255, 255, 255)

(***************************************************************************)
(* C26: when the selected field is not a key of valueOnMesh, the scene is  *)
(* the scene of no selection: every cell has the same colour, fill and     *)
(* wireframe as it has with nothing selected.                              *)
(***************************************************************************)
StaleSelection ==
  selectedValue # "" /\ selectedValue \notin DOMAIN sceneData.valueOnMesh

C26_StaleSelectionIsNoSelection ==
  StaleSelection => rendered = Scene("", sceneVisibility, sceneData)

\* The field p is selected, the data has the field temp only, and a cell
\* is rendered.
C26_Witness ==
  /\ StaleSelection
  /\ DOMAIN sceneData.valueOnMesh # {}
  /\ \E cell \in DOMAIN rendered : rendered[cell].color = Pink

(***************************************************************************)
(* C27: with a field selected whose values for a mesh are fewer than the   *)
(* points of the mesh, each cell that has a value gets the colour its      *)
(* value maps to, and each cell beyond the values the default colour with  *)
(* alpha 1.0.                                                              *)
(***************************************************************************)
C27_ShortValuesDegrade ==
  selectedValue \in DOMAIN sceneData.valueOnMesh =>
    \A cell \in DOMAIN rendered :
      IF cell[2] < Len(SelectedByMesh[cell[1]])
      THEN /\ rendered[cell].color.css = "rgb"
           /\ rendered[cell].color =
                MeshCellColor(Num(CellValue(cell)),
                              SceneValueRange(selectedValue,
                                              sceneData.valueOnMesh)).color
           /\ rendered[cell].showValues => rendered[cell].fillOpacity = AlphaShaded
      ELSE /\ rendered[cell].color = Pink
           /\ rendered[cell].showValues => rendered[cell].fillOpacity = AlphaDefault

\* A mesh of two points with one value: the first cell is mapped, the
\* second has the default colour.
C27_Witness ==
  /\ selectedValue \in DOMAIN sceneData.valueOnMesh
  /\ sceneData.mesh["region1"] = 2
  /\ Len(SelectedByMesh["region1"]) = 1
  /\ rendered[<<"region1", 0>>].color.css = "rgb"
  /\ rendered[<<"region1", 1>>].color = Pink

(***************************************************************************)
(* C28: a geometry entry whose name is marked visible has all its lines    *)
(* emitted, in order and with their own coordinates; an entry whose name   *)
(* is not marked visible has none emitted.                                 *)
(***************************************************************************)
\* The points of a line as the six coordinates x, y, 0, x, y, 0.
Verbatim(line) == <<line[1][1], line[1][2], 0, line[2][1], line[2][2], 0>>

EmittedInOrder(name, positions(_)) ==
  /\ Len(renderedLines[name]) = Len(sceneData.geometry[name])
  /\ \A i \in DOMAIN renderedLines[name] :
       renderedLines[name][i].positions = positions(sceneData.geometry[name][i])

PlotIsShown == PlotShown(activeTab, sharedData.value, uncaughtError)
PlotData == sharedData.value["res"]
PlotRecords ==
  TransformedData(PlotData, startIndex, MaxLength(sharedData.value), visibleSeries)
\* The series of the data that the user has not switched off.
ShownSeries == Keys(PlotData) \ userHidden

RecordCount ==
  IF MaxLength(sharedData.value) > startIndex
  THEN MaxLength(sharedData.value) - startIndex ELSE 0

C29_WindowRecords ==
  PlotIsShown =>
    /\ Len(PlotRecords) = RecordCount
    /\ \A i \in DOMAIN PlotRecords :
         /\ PlotRecords[i]["index"] = Num(startIndex + i - 1)
         /\ \A name \in ShownSeries :
              /\ name \in DOMAIN PlotRecords[i]
              /\ LET series == Spread(PlotData)[name].v
                     at == startIndex + i
                 IN PlotRecords[i][name] =
                      IF at \in DOMAIN series THEN Num(series[at]) ELSE Null

(***************************************************************************)
(* C30: every record of the plot has an entry for every series key of the  *)
(* data that the user has not switched off, also for a key that an append  *)
(* created after the plot was mounted.                                     *)
(***************************************************************************)
C30_EverySeriesInEveryRecord ==
  PlotIsShown =>
    \A i \in DOMAIN PlotRecords : ShownSeries \subseteq DOMAIN PlotRecords[i]

(***************************************************************************)
(* C21: an object that a reader took as the state shows the contents it    *)
(* had when it was taken, whatever updates follow; and the object that is  *)
(* the state shows, for an append, none of the message's keys merged or    *)
(* all of them, at every statement of the updater.                         *)
(***************************************************************************)
SnapshotsKeepContents ==
  \A s \in snapshots : DerefStore(heap, s.ref) = s.contents

ObservedState == DerefStore(heap, stateRef)

NoPartialMerge ==
  IF updater.pc = "forEach"
  THEN ObservedState \in {updater.before, UpdatedValue(updater.before, updater.data)}
  ELSE ObservedState = HandleAll(EmptyObject, [i \in DOMAIN log |-> JSONParse(log[i])])

C21_UpdateIsAtomic == SnapshotsKeepContents /\ NoPartialMerge

\* The updater has merged one of the two keys of an append into
\* updatedValue, while a reader holds the object that is the state.
C21_Witness ==
  /\ updater.pc = "forEach"
  /\ Len(updater.keys) = 1
  /\ \E s \in snapshots : s.ref = stateRef
  /\ DerefField(heap, updater.updatedValue) # ObservedState[updater.data.field]

(***************************************************************************)
(* C31: a run of connectWebSocket while ws.current is open creates no      *)
(* socket, replaces no handler, schedules no timer and leaves the status   *)
(* as it is.  The run is the callback of a reconnect timer: the mount      *)
(* effect runs it on no socket and handleManualReconnect closes the socket *)
(* first.                                                                  *)
(***************************************************************************)
CurrentIsOpen == ws # 0 /\ sockets[ws].readyState = "OPEN"
RunsConnect == connectRuns' = connectRuns + 1

C31_ConnectWhileOpenIsNoOp ==
  [][ (RunsConnect /\ CurrentIsOpen)
      => /\ sockets' = sockets
         /\ ws' = ws
         /\ Len(timers') = Len(timers)
         /\ PendingTimers' \subseteq PendingTimers
         /\ reconnectTimeout' = reconnectTimeout
         /\ wsState' = wsState ]_vars

\* A reconnect timer has fired on an open socket: one more run of
\* connectWebSocket than sockets created.
C31_Witness ==
  /\ CurrentIsOpen
  /\ 1 + manualCount + connectRuns > Len(sockets)

(***************************************************************************)
(* C32: the cleanup leaves no reconnect timer pending and the socket that  *)
(* was current without handlers and not open; and the close of a socket    *)
(* the cleanup has detached changes neither the status nor the timers.     *)
(***************************************************************************)
RunsCleanup == tornDown' /\ ~tornDown
Detached(sock) ==
  ~sock.onopen /\ ~sock.onmessage /\ ~sock.onclose /\ ~sock.onerror
\* The socket s, detached by the cleanup, is closed in this step.
ClosesDetached(s) ==
  /\ Detached(sockets[s])
  /\ sockets[s].readyState # "CLOSED"
  /\ sockets'[s].readyState = "CLOSED"

\* The part of C32 on the socket: the cleanup detaches and closes the
\* current socket, whose close event then runs no handler.
TeardownClosesSilently ==
  [][ /\ (RunsCleanup /\ ws # 0)
        => (Detached(sockets'[ws]) /\ sockets'[ws].readyState # "OPEN")
      /\ \A s \in DOMAIN sockets :
           ClosesDetached(s)
             => (wsState' = wsState /\ timers' = timers
                 /\ reconnectTimeout' = reconnectTimeout) ]_vars

C32_TeardownCancelsAndDetaches ==
  [][ /\ RunsCleanup => PendingTimers' = {}
      /\ (RunsCleanup /\ ws # 0)
        => (Detached(sockets'[ws]) /\ sockets'[ws].readyState # "OPEN")
      /\ \A s \in DOMAIN sockets :
           ClosesDetached(s)
             => (wsState' = wsState /\ timers' = timers
                 /\ reconnectTimeout' = reconnectTimeout) ]_vars

(***************************************************************************)
(* C33: while the manager is not torn down, the status is connected        *)
(* exactly when ws.current is an open socket.                              *)
(***************************************************************************)
C33_StatusIsCurrentSocket ==
  ~tornDown => (wsState.isConnected <=> CurrentIsOpen)

(***************************************************************************)
(* C34: while the manager is not torn down and none of its sockets is open *)
(* or connecting, a reconnect timer is pending; and with the timers        *)
(* firing, such a state leads to one with a socket connecting or open (or  *)
(* to the teardown).  The model creates no more than MaxSockets sockets.   *)
(***************************************************************************)
LiveSockets ==
  {s \in DOMAIN sockets : sockets[s].readyState \in {"CONNECTING", "OPEN"}}
Stranded == ~tornDown /\ LiveSockets = {}

C34_ReconnectIsScheduled ==
  /\ [](Stranded => PendingTimers # {})
  /\ (Stranded /\ Len(sockets) < MaxSockets) ~> (LiveSockets # {} \/ tornDown)

\* A socket has closed, nothing is connected and the reconnect timer is
\* pending.
C34_Witness ==
  /\ Stranded
  /\ closeCount > 0
  /\ PendingTimers # {}

(***************************************************************************)
(* C35: once the cleanup has run, no socket of the manager is open or      *)
(* connecting.                                                             *)
(***************************************************************************)
C35_TeardownLeavesNoLiveSocket == tornDown => LiveSockets = {}

(***************************************************************************)
(* C36: after an update has been applied, the status is idle only when no  *)
(* quiescence timer is pending.  The timers have the same delay and fire   *)
(* in the order of their updates, so the timer of the most recent update   *)
(* is pending as long as any is: its delay has not passed before it fires. *)
(***************************************************************************)
C36_IdleOnlyAfterQuiescence ==
  (updateCount > 0 /\ ~uncaughtError /\ sharedData.status = "idle")
    => quiesceTimers = 0

(***************************************************************************)
(* C37: the step that handles a frame that does not decode leaves the      *)
(* status error, and the status error is left only by a step that handles  *)
(* a frame that decodes.                                                   *)
(***************************************************************************)
HandlesDecodedFrame == HandlesFrame /\ ~JSONParseThrows(HandledFrame)

C37_ErrorStaysUntilDecoded ==
  [][ /\ (HandlesFrame /\ JSONParseThrows(HandledFrame))
        => sharedData'.status = "error"
      /\ (sharedData.status = "error" /\ ~HandlesDecodedFrame)
        => sharedData'.status = "error" ]_vars

(***************************************************************************)
(* C38: a step of the connection (an open, close or error event, a         *)
(* reconnect timer, a manual reconnect, the cleanup) leaves the Field      *)
(* Store and the message history as they are; so the store holds what the  *)
(* frames received so far make of it, whatever the connection did since.   *)
(***************************************************************************)
ConnectionStep == log' = log /\ quiesceTimers' = quiesceTimers

Decodes(frame) == ~JSONParseThrows(frame)

StoreOfLog ==
  LET decoded == SelectSeq(log, Decodes)
  IN HandleAll(EmptyObject, [i \in DOMAIN decoded |-> JSONParse(decoded[i])])

C38_ConnectionLeavesStore ==
  /\ [][ ConnectionStep => /\ sharedData' = sharedData
                           /\ wsState'.messageHistory = wsState.messageHistory
                           /\ wsState'.lastMessage = wsState.lastMessage ]_vars
  /\ [](sharedData.value = StoreOfLog)

\* A frame was stored, its socket was closed, and a later socket is open.
C38_Witness ==
  /\ updateCount > 0
  /\ closeCount > 0
  /\ CurrentIsOpen /\ ws > 1
  /\ wsState.isConnected
  /\ sharedData.value # EmptyObject
  /\ wsState.messageHistory # <<>>

(***************************************************************************)
(* C39: the step that handles an update for field F leaves every other     *)
(* field of the Field Store present, with the value it had.                *)
(***************************************************************************)
OtherFields(F) == DOMAIN sharedData.value \ {F}

C39_UpdateLeavesOtherFields ==
  [][ HandlesDecodedFrame =>
        \A G \in OtherFields(JSONParse(HandledFrame).field) :
          /\ G \in DOMAIN sharedData'.value
          /\ sharedData'.value[G] = sharedData.value[G] ]_vars

\* Both fields are stored and the last update, of one of them, was made.
C39_Witness ==
  /\ {"res", "age"} \subseteq DOMAIN sharedData.value
  /\ updateCount = MaxMsgs
  /\ ~JSONParseThrows(log[Len(log)])
  /\ JSONParse(log[Len(log)]).type = "append"

(***************************************************************************)
(* C40: on the selection and the value_on_mesh of a render, the legend of  *)
(* ViewerControls computes its value range without an error, and the range *)
(* is the one Scene shades with.                                           *)
(***************************************************************************)
C40_LegendRangeIsSceneRange ==
  \A legend \in LegendValueRanges(selectedValue, sceneData.valueOnMesh) :
    /\ ~legend.throws
    /\ legend.range = SceneValueRange(selectedValue, sceneData.valueOnMesh)

\* Without a selected field of value_on_mesh neither component has a range.
LegendAgreesWithoutSelection ==
  (selectedValue = "" \/ selectedValue \notin DOMAIN sceneData.valueOnMesh)
    => C40_LegendRangeIsSceneRange
====
